---------------------------- MODULE Spec2Model ----------------------------
(***************************************************************************)
(* rflyhigh/filemanager: a web front end over Backblaze B2.                *)
(*                                                                         *)
(* Two programs live in the repository and both are modelled here:         *)
(*   - the storage gateway of src/index.js (token cache, listing cache,    *)
(*     bucket-info cache, upload / rename / delete / serve against B2),    *)
(*     modelled at the granularity of its awaits: the code between two     *)
(*     awaits is one atomic step (specifications Spec: requests served     *)
(*     concurrently; SpecSeq: one at a time; SpecAuth: one at a time,      *)
(*     against a store that expires tokens);                               *)
(*   - the metadata server of src/models/File.js (folders, file records,   *)
(*     the upload pipeline with ffmpeg enrichment), modelled with one      *)
(*     action per handler (specifications SpecIdx: all handlers;           *)
(*     SpecFolders: the folder handlers over longer runs; SpecFiles: the   *)
(*     file handlers).                                                     *)
(* Strings are sequences of one-character strings.                         *)
(***************************************************************************)
EXTENDS Integers, Sequences, FiniteSets, TLC

(***************************************************************************)
(* Bounds of the model.                                                    *)
(***************************************************************************)
NumProcs == 2
MaxTicks == 2
MaxFileId == 2
MaxRequests == 3
MaxFolderRequests == 4
MaxFileRequests == 2
MaxDocs == 3
MaxObjects == 3
MaxStamp == 11
MaxTokenRequests == 3
MaxMoveRequests == 3
MaxCrumbFolders == 3

(***************************************************************************)
(* Strings.                                                                *)
(***************************************************************************)
LowerSeq == <<"a", "b", "c", "d", "e", "f", "g", "h", "i", "j", "k", "l", "m",
             "n", "o", "p", "q", "r", "s", "t", "u", "v", "w", "x", "y", "z">>
LowerLetters == {LowerSeq[i] : i \in 1..26}
DigitChars == <<"0", "1", "2", "3", "4", "5", "6", "7", "8", "9">>
Digits == {DigitChars[i] : i \in 1..10}
UpperOf == [c \in {"A", "B"} |-> IF c = "A" THEN "a" ELSE "b"]

\* String.prototype.toLowerCase, one character
ToLowerChar(c) == IF c \in DOMAIN UpperOf THEN UpperOf[c] ELSE c

\* /[a-z0-9]/i
IsAlnum(c) == ToLowerChar(c) \in LowerLetters \cup Digits

\* title.replace(/[^a-z0-9]/gi, '_').toLowerCase()
SafeTitleLower(title) ==
    [i \in 1..Len(title) |-> IF IsAlnum(title[i]) THEN ToLowerChar(title[i]) ELSE "_"]

\* a rendering that drops the number (never the case)
Undated(n) == <<>>

\* `${n}` of a non-negative integer
RECURSIVE NatToStr(_)
NatToStr(n) ==
    IF n < 10 THEN <<DigitChars[n + 1]>>
    ELSE NatToStr(n \div 10) \o <<DigitChars[(n % 10) + 1]>>

\* index of the last occurrence of character c in s, 0 when there is none
RECURSIVE LastIndexOf(_, _, _)
LastIndexOf(s, c, i) ==
    IF i = 0 THEN 0
    ELSE IF s[i] = c THEN i ELSE LastIndexOf(s, c, i - 1)

\* s.split(c).pop(): what follows the last c, the whole string when there is none
SplitPop(s, c) == SubSeq(s, LastIndexOf(s, c, Len(s)) + 1, Len(s))

\* s.split(c)[0]: what precedes the first c
RECURSIVE FirstIndexOf(_, _, _)
FirstIndexOf(s, c, i) ==
    IF i > Len(s) THEN 0
    ELSE IF s[i] = c THEN i ELSE FirstIndexOf(s, c, i + 1)

SplitFirst(s, c) ==
    LET k == FirstIndexOf(s, c, 1)
    IN  IF k = 0 THEN s ELSE SubSeq(s, 1, k - 1)

IsPrefix(p, s) == Len(p) <= Len(s) /\ SubSeq(s, 1, Len(p)) = p

FilesPrefix == <<"f", "i", "l", "e", "s", "/">>

\* s.split(c): the pieces of s between the occurrences of character c
RECURSIVE Split(_, _)
Split(s, c) ==
    LET k == FirstIndexOf(s, c, 1)
    IN  IF k = 0 THEN <<s>>
        ELSE <<SubSeq(s, 1, k - 1)>> \o Split(SubSeq(s, k + 1, Len(s)), c)

\* parts.join(sep)
RECURSIVE Join(_, _)
Join(parts, sep) ==
    IF Len(parts) = 0 THEN <<>>
    ELSE IF Len(parts) = 1 THEN parts[1]
    ELSE parts[1] \o sep \o Join(Tail(parts), sep)

\* s.replace(/_/g, ' ')
UnderscoresToSpaces(s) == [i \in 1..Len(s) |-> IF s[i] = "_" THEN " " ELSE s[i]]

\* parts.pop(): what is left of parts
Front(parts) == SubSeq(parts, 1, Len(parts) - 1)

\* Byte order of the characters the model uses (ASCII), for the object store's
\* listing order.
Ascii(c) ==
    CASE c = " " -> 32
      [] c = "." -> 46
      [] c = "/" -> 47
      [] c \in Digits -> 48 + (CHOOSE i \in 0..9 : DigitChars[i + 1] = c)
      [] c \in DOMAIN UpperOf -> 64 + (CHOOSE i \in 1..26 : LowerSeq[i] = UpperOf[c])
      [] c = "_" -> 95
      [] c \in LowerLetters -> 96 + (CHOOSE i \in 1..26 : LowerSeq[i] = c)

RECURSIVE StrLess(_, _)
StrLess(s, t) ==
    IF Len(t) = 0 THEN FALSE
    ELSE IF Len(s) = 0 THEN TRUE
    ELSE IF s[1] = t[1] THEN StrLess(Tail(s), Tail(t))
    ELSE Ascii(s[1]) < Ascii(t[1])

(***************************************************************************)
(* Configuration and inputs.                                               *)
(***************************************************************************)
\* the keys of BUCKET_CONFIG
Accounts == {"account1", "account2"}

bucketConfig == [a \in Accounts |-> [bucketId |-> a, bucketName |-> a]]

\* account keys a client may send
RequestAccounts == Accounts \cup {"other"}

Procs == 1..NumProcs

FILE_CACHE_TTL == 5 * 60 * 1000

\* the clock advances in steps of just under a TTL: an entry is still fresh one
\* step after it was stored, and older than the TTL two steps after
TickMs == FILE_CACHE_TTL - 1

\* titles and original file names a client may send
Titles == {<<"a">>, <<"b", " ", "c">>}
OriginalNames == {<<"v", ".", "p", "n", "g">>}

VARIABLES
    now,              \* Date.now()
    authTokenCache,   \* account -> token number, 0: no entry
    issued,           \* object store: tokens issued per account
    revoked,          \* object store: tokens up to this number are expired
    bucket,           \* object store: account -> set of file versions
    nextFileId,       \* object store: next file id
    last,             \* the response the last step sent, NoResp when it sent none
    res,              \* metadata server: the response of the last request
    fileListCache,    \* account -> [has, timestamp, files]
    bucketInfoCache,  \* account -> [has, timestamp, info]
    req,              \* gateway: the request each task is serving
    staleEntry,       \* history: the listing entry predates the account's last mutation
    started,          \* history: the number of requests begun
    folders,          \* metadata index: the Folder documents
    files,            \* metadata index: the File documents
    tempFiles,        \* the files of the temp directory
    nextDocId,        \* metadata index: next document id
    nextStageId,      \* next staged upload
    uploadQueueList,  \* browser: ids of the items in the upload queue, in order
    isUploading,      \* browser: the flag of processUploadQueue
    itemStatus,       \* browser: item id -> status of the queue item object
    xhrs,             \* browser: the items of the upload requests in flight
    timeouts,         \* browser: the items whose 3-second timer is pending
    nextItemId,       \* browser: next queue item id
    sendCount         \* history: the number of upload requests sent, modulo SendModulus

sharedVars == <<now, authTokenCache, issued, revoked, bucket, nextFileId, last>>
gwVars == <<fileListCache, bucketInfoCache, req, staleEntry,
           started>>
idxVars == <<folders, files, tempFiles, nextDocId, nextStageId, res>>
clientVars == <<uploadQueueList, isUploading, itemStatus, xhrs, timeouts, nextItemId,
               sendCount>>
serverVars == <<sharedVars, gwVars, idxVars>>
vars == <<sharedVars, gwVars, idxVars, clientVars>>

NoEntry == [has |-> FALSE, timestamp |-> 0, files |-> <<>>]
NoInfoEntry == [has |-> FALSE, timestamp |-> 0, info |-> [bucketName |-> ""]]

Idle ==
    [op |-> "none", account |-> "", phase |-> "idle", call |-> "", status |-> "",
     authData |-> 0, listing |-> <<>>,
     info |-> [bucketName |-> ""], newFileId |-> 0,
     title |-> <<>>, fileName |-> <<>>, srcId |-> 0, srcName |-> <<>>,
     freshAtCall |-> FALSE, expiredAtCall |-> FALSE, nRemote |-> 0, nList |-> 0,
     outdated |-> FALSE]

NoResp ==
    [op |-> "none", account |-> "", status |-> "", fromCache |-> FALSE,
     rejected |-> FALSE, files |-> <<>>, info |-> [bucketName |-> ""],
     token |-> 0, freshAtCall |-> FALSE, expiredAtCall |-> FALSE, fetched |-> FALSE,
     hadEntry |-> FALSE, nRemote |-> 0, nList |-> 0,
     call |-> "", srcId |-> 0, newFileId |-> 0, fileName |-> <<>>, outdated |-> FALSE,
     srcName |-> <<>>, title |-> <<>>]

(***************************************************************************)
(* The object store (Backblaze B2), as the gateway uses it.                *)
(***************************************************************************)
TokenLive(a, t) == t > revoked[a]

\* the latest version of each file name under the prefix files/
LatestVersions(a) ==
    {o \in bucket[a] :
        /\ IsPrefix(FilesPrefix, o.fileName)
        /\ \A o2 \in bucket[a] : o2.fileName = o.fileName => o2.fileId <= o.fileId}

\* b2_list_file_names answers in ascending order of file name
RECURSIVE ByName(_)
ByName(S) ==
    IF S = {} THEN <<>>
    ELSE LET m == CHOOSE o \in S : \A o2 \in S \ {o} : StrLess(o.fileName, o2.fileName)
         IN  <<m>> \o ByName(S \ {m})

RemoteListFileNames(a) == ByName(LatestVersions(a))

(***************************************************************************)
(* The gateway's helpers (src/index.js).                                   *)
(***************************************************************************)
\* file.fileName.replace('files/', ''): the listing holds names under files/ only
StripFilesPrefix(s) == SubSeq(s, Len(FilesPrefix) + 1, Len(s))

\* the title listFiles derives from a file name
ParsedTitle(filename) == UnderscoresToSpaces(Join(Front(Split(filename, "_")), <<>>))

\* the view of one listed file (size, contentType and url are left out)
FileView(file, account) ==
    [fileName |-> StripFilesPrefix(file.fileName),
     fullFileName |-> file.fileName,
     fileId |-> file.fileId,
     uploadTimestamp |-> file.uploadTimestamp,
     title |-> ParsedTitle(StripFilesPrefix(file.fileName)),
     account |-> account]

\* files.sort((a, b) => b.uploadTimestamp - a.uploadTimestamp), a stable sort
RECURSIVE InsertNewestFirst(_, _)
InsertNewestFirst(sorted, f) ==
    IF Len(sorted) = 0 THEN <<f>>
    ELSE IF sorted[Len(sorted)].uploadTimestamp >= f.uploadTimestamp
         THEN sorted \o <<f>>
         ELSE InsertNewestFirst(Front(sorted), f) \o <<sorted[Len(sorted)]>>

\* a listing left in the order of the store's answer (never the case)
Unsorted(fs) == fs

RECURSIVE SortNewestFirst(_)
SortNewestFirst(fs) ==
    IF Len(fs) = 0 THEN <<>>
    ELSE InsertNewestFirst(SortNewestFirst(Front(fs)), fs[Len(fs)])

ListingOf(result, account) ==
    SortNewestFirst([i \in 1..Len(result) |-> FileView(result[i], account)])

\* variants of the freshness test: one that never expires an entry, one that
\* never trusts one
AlwaysFresh(timestamp) == TRUE
NeverFresh(timestamp) == FALSE

\* Date.now() - timestamp < FILE_CACHE_TTL
CacheFresh(timestamp) == now - timestamp < FILE_CACHE_TTL

\* fileListCache.has(cacheKey) and the entry is fresh
ListCacheHit(a) == fileListCache[a].has /\ CacheFresh(fileListCache[a].timestamp)

\* bucketInfoCache.has(cacheKey) and the entry is fresh
InfoCacheHit(a) == bucketInfoCache[a].has /\ CacheFresh(bucketInfoCache[a].timestamp)

\* a variant of the token cache that stores nothing
ForgetToken(cache, a, authData) == cache

\* authTokenCache.set(account, authData)
StoreToken(cache, a, authData) == [cache EXCEPT ![a] = authData]

\* a variant of the invalidation that keeps the entry
KeepListing(cache, a) == cache

\* fileListCache.delete(`files_${account}`)
DropListing(cache, a) == [cache EXCEPT ![a] = NoEntry]

\* bucketInfoCache.delete(`bucket_info_${account}`)
DropInfo(cache, a) == [cache EXCEPT ![a] = NoInfoEntry]

\* the first remote call of each operation, after getAuthToken
FirstCall(op) ==
    CASE op = "list" -> "list"
      [] op = "info" -> "bucket_info"
      [] op = "upload" -> "get_upload_url"
      [] op = "rename" -> "copy"
      [] op = "delete" -> "delete"
      [] op = "serve" -> "download_auth"

\* a fetch is sent: the task waits for its answer
IssueCall(r, call) ==
    [r EXCEPT !.call = call, !.phase = "sent", !.status = "",
              !.nRemote = @ + 1,
              !.nList = IF call = "list" THEN @ + 1 ELSE @]

\* getAuthToken up to its first await: the cached token, or the authorize fetch
GetAuthToken(r) ==
    IF authTokenCache[r.account] # 0
    THEN IssueCall([r EXCEPT !.authData = authTokenCache[r.account]], FirstCall(r.op))
    ELSE IssueCall(r, "authorize")

\* what a helper returns, or a route responds, when a step of it throws
FailStatus(op) == IF op \in {"list", "info"} THEN "return" ELSE "500"

ErrorInfo == [bucketName |-> "error"]

RespOf(r, status) ==
    [NoResp EXCEPT !.op = r.op, !.account = r.account, !.status = status,
                   !.rejected = (r.status = "unauthorized"),
                   !.token = r.authData,
                   !.freshAtCall = r.freshAtCall,
                   !.expiredAtCall = r.expiredAtCall,
                   !.nRemote = r.nRemote, !.nList = r.nList,
                   !.call = r.call, !.srcId = r.srcId, !.newFileId = r.newFileId,
                   !.fileName = r.fileName, !.outdated = r.outdated,
                   !.srcName = r.srcName, !.title = r.title]

FailResp(r) ==
    [RespOf(r, FailStatus(r.op)) EXCEPT !.info = IF r.op = "info" THEN ErrorInfo ELSE @]

\* a task starts serving request r0: it runs to the first await
Begin(p, r0) ==
    LET r == GetAuthToken(r0)
    IN  /\ req' = [req EXCEPT ![p] = r]
        /\ last' = NoResp

\* a request is served by the first free task (the tasks are interchangeable)
Free(p) == req[p].phase = "idle" /\ \A q \in 1..(p - 1) : req[q].phase # "idle"

\* the task ends with response rsp
Respond(p, rsp) ==
    /\ req' = [req EXCEPT ![p] = Idle]
    /\ last' = rsp

\* history: a listing of account a that the store has answered and the gateway
\* has not yet stored was fetched before the mutation that now responds
Outdate(r, a) ==
    IF r.op = "list" /\ r.account = a /\ r.phase = "resp"
    THEN [r EXCEPT !.outdated = TRUE] ELSE r

\* the task ends a successful mutation of account a with response rsp
RespondMutation(p, rsp, a) ==
    /\ req' = [q \in Procs |-> IF q = p THEN Idle ELSE Outdate(req[q], a)]
    /\ last' = rsp

\* object ids the store may still hand out to requests not yet begun
CanCreate ==
    nextFileId + Cardinality({q \in Procs : req[q].op \in {"upload", "rename"}})
        <= MaxFileId

\* the files a client can name: those of the page it was served
ClientFiles(a) ==
    IF a \in Accounts THEN LatestVersions(a)
    ELSE {[fileName |-> FilesPrefix \o <<"x">>, fileId |-> 1, uploadTimestamp |-> 0]}

(***************************************************************************)
(* The gateway's operations (src/index.js), one action per stretch of code *)
(* between two awaits.                                                     *)
(***************************************************************************)
\* history: the age of the entry when the call was made
EntryFresh(entry) == entry.has /\ now - entry.timestamp < FILE_CACHE_TTL
EntryExpired(entry) == entry.has /\ now > entry.timestamp + FILE_CACHE_TTL

\* listFiles(account) up to its first await
StartList(p, a) ==
    LET r0 == [Idle EXCEPT !.op = "list", !.account = a,
                           !.freshAtCall = EntryFresh(fileListCache[a]),
                           !.expiredAtCall = EntryExpired(fileListCache[a])]
    IN  /\ Free(p)
        /\ started < MaxRequests
        /\ started' = started + 1
        /\ IF ListCacheHit(a)
           THEN /\ last' = [RespOf(r0, "return") EXCEPT
                               !.fromCache = TRUE, !.files = fileListCache[a].files]
                /\ UNCHANGED req
           ELSE Begin(p, r0)
        /\ UNCHANGED <<clientVars, now, authTokenCache, issued, revoked, bucket, nextFileId,
                       fileListCache, bucketInfoCache, staleEntry, idxVars>>

\* getBucketInfo(account) up to its first await
StartInfo(p, a) ==
    LET r0 == [Idle EXCEPT !.op = "info", !.account = a,
                           !.freshAtCall = EntryFresh(bucketInfoCache[a]),
                           !.expiredAtCall = EntryExpired(bucketInfoCache[a])]
    IN  /\ Free(p)
        /\ started < MaxRequests
        /\ started' = started + 1
        /\ IF InfoCacheHit(a)
           THEN /\ last' = [RespOf(r0, "return") EXCEPT
                               !.fromCache = TRUE, !.info = bucketInfoCache[a].info]
                /\ UNCHANGED req
           ELSE Begin(p, r0)
        /\ UNCHANGED <<clientVars, now, authTokenCache, issued, revoked, bucket, nextFileId,
                       fileListCache, bucketInfoCache, staleEntry, idxVars>>

\* a route finds the account missing from bucketConfig: 400
BadAccount(op, a) ==
    /\ last' = [NoResp EXCEPT !.op = op, !.account = a, !.status = "400"]
    /\ UNCHANGED req

\* POST /upload: the storage key of an upload made at timestamp (Date.now())
UploadKey(title, originalname, timestamp) ==
    LET safeTitle == SafeTitleLower(title)
        filename == safeTitle \o <<"_">> \o NatToStr(timestamp)
        extension == SplitPop(originalname, ".")
        fullFilename == filename \o <<".">> \o extension
    IN  FilesPrefix \o fullFilename

\* POST /upload up to its first await
StartUpload(p, a, title, originalname) ==
    /\ Free(p)
    /\ started < MaxRequests
    /\ started' = started + 1
    /\ CanCreate
    /\ IF a \notin DOMAIN bucketConfig
       THEN BadAccount("upload", a)
       ELSE LET timestamp == now
                b2FileName == UploadKey(title, originalname, timestamp)
            IN  Begin(p, [Idle EXCEPT !.op = "upload", !.account = a, !.title = title,
                                      !.fileName = b2FileName])
    /\ UNCHANGED <<clientVars, now, authTokenCache, issued, revoked, bucket, nextFileId,
                   fileListCache, bucketInfoCache, staleEntry, idxVars>>

\* POST /rename-file up to its first await
StartRename(p, a, file, newTitle) ==
    /\ Free(p)
    /\ started < MaxRequests
    /\ started' = started + 1
    /\ CanCreate
    /\ IF a \notin DOMAIN bucketConfig
       THEN BadAccount("rename", a)
       ELSE LET oldFileName == StripFilesPrefix(file.fileName)
                safeTitle == SafeTitleLower(newTitle)
                oldFileNameParts == Split(oldFileName, "_")
                timestamp == SplitFirst(oldFileNameParts[Len(oldFileNameParts)], ".")
                extension == SplitPop(oldFileName, ".")
                newFileName == safeTitle \o <<"_">> \o timestamp \o <<".">> \o extension
            IN  Begin(p, [Idle EXCEPT !.op = "rename", !.account = a, !.title = newTitle,
                                      !.fileName = FilesPrefix \o newFileName,
                                      !.srcId = file.fileId,
                                      !.srcName = FilesPrefix \o oldFileName])
    /\ UNCHANGED <<clientVars, now, authTokenCache, issued, revoked, bucket, nextFileId,
                   fileListCache, bucketInfoCache, staleEntry, idxVars>>

\* POST /delete-file up to its first await
StartDelete(p, a, file) ==
    /\ Free(p)
    /\ started < MaxRequests
    /\ started' = started + 1
    /\ IF a \notin DOMAIN bucketConfig
       THEN BadAccount("delete", a)
       ELSE Begin(p, [Idle EXCEPT !.op = "delete", !.account = a,
                                  !.srcId = file.fileId, !.srcName = file.fileName])
    /\ UNCHANGED <<clientVars, now, authTokenCache, issued, revoked, bucket, nextFileId,
                   fileListCache, bucketInfoCache, staleEntry, idxVars>>

\* GET /files/:account/:filename up to its first await
StartServe(p, a, file) ==
    /\ Free(p)
    /\ started < MaxRequests
    /\ started' = started + 1
    /\ IF a \notin DOMAIN bucketConfig
       THEN BadAccount("serve", a)
       ELSE Begin(p, [Idle EXCEPT !.op = "serve", !.account = a,
                                  !.srcName = file.fileName])
    /\ UNCHANGED <<clientVars, now, authTokenCache, issued, revoked, bucket, nextFileId,
                   fileListCache, bucketInfoCache, staleEntry, idxVars>>

(***************************************************************************)
(* The object store answers the call a task is waiting for.  The answer    *)
(* and the code that runs on it are one step, except for the listing,      *)
(* whose snapshot is taken at the store before the gateway sees it.        *)
(***************************************************************************)
\* the answers the store can give to the call of request r
Outcomes(r) ==
    CASE r.call = "authorize" -> {"ok", "error"}
      [] r.call = "upload_file" -> {"ok", "error"}
      [] ~TokenLive(r.account, r.authData) -> {"unauthorized"}
      [] r.call = "copy" ->
            IF \E o \in bucket[r.account] : o.fileId = r.srcId
            THEN {"ok", "error"} ELSE {"error"}
      [] r.call = "delete" ->
            IF \E o \in bucket[r.account] : o.fileId = r.srcId /\ o.fileName = r.srcName
            THEN {"ok", "error"} ELSE {"error"}
      [] OTHER -> {"ok", "error"}

\* b2_delete_file_version left every version in place (never the case)
KeepVersion(objects, fileId, fileName) == objects

\* b2_delete_file_version: removes the one version named by id and file name
DeleteVersion(objects, fileId, fileName) ==
    {o \in objects : ~(o.fileId = fileId /\ o.fileName = fileName)}

NewVersion(r) == [fileName |-> r.fileName, fileId |-> nextFileId, uploadTimestamp |-> now]

\* what the call of request r, answered st, does at the store
StoreAnswers(r, st) ==
    LET a == r.account
    IN  /\ issued' = IF st = "ok" /\ r.call = "authorize"
                     THEN [issued EXCEPT ![a] = @ + 1] ELSE issued
        /\ bucket' =
              IF st = "ok" /\ r.call \in {"upload_file", "copy"}
              THEN [bucket EXCEPT ![a] = @ \cup {NewVersion(r)}]
              ELSE IF st = "ok" /\ r.call = "delete"
              THEN [bucket EXCEPT ![a] = DeleteVersion(@, r.srcId, r.srcName)]
              ELSE bucket
        /\ nextFileId' = IF st = "ok" /\ r.call \in {"upload_file", "copy"}
                         THEN nextFileId + 1 ELSE nextFileId

Waiting(p, op, call) ==
    req[p].phase = "sent" /\ req[p].call = call /\ (op = "any" \/ req[p].op = op)

\* the object store expires the tokens it has issued for the account
ExpireTokens(a) ==
    /\ revoked[a] < issued[a]
    /\ revoked' = [revoked EXCEPT ![a] = issued[a]]
    /\ last' = NoResp
    /\ UNCHANGED <<clientVars, now, authTokenCache, issued, bucket, nextFileId,
                   gwVars, idxVars>>

Tick ==
    /\ now < MaxTicks * TickMs
    /\ now' = now + TickMs
    /\ last' = NoResp
    /\ UNCHANGED <<clientVars, authTokenCache, issued, revoked, bucket, nextFileId,
                   gwVars, idxVars>>

\* getAuthToken after its fetch (index.js:107-116), then the caller goes on
AuthReturn(p) ==
    LET r == req[p]
        authData == issued[r.account] + 1
    IN  /\ Waiting(p, "any", "authorize")
        /\ \E st \in Outcomes(r) :
              /\ StoreAnswers(r, st)
              /\ IF st = "ok"
                 THEN /\ authTokenCache' = StoreToken(authTokenCache, r.account, authData)
                      /\ req' = [req EXCEPT ![p] =
                                  IssueCall([r EXCEPT !.authData = authData],
                                            FirstCall(r.op))]
                      /\ last' = NoResp
                 ELSE /\ Respond(p, FailResp([r EXCEPT !.status = st]))
                      /\ UNCHANGED authTokenCache
        /\ UNCHANGED <<clientVars, now, revoked, fileListCache, bucketInfoCache,
                       staleEntry, started, idxVars>>

\* b2_list_file_names is answered at the store
RemoteList(p) ==
    LET r == req[p]
    IN  /\ Waiting(p, "list", "list")
        /\ \E st \in Outcomes(r) :
              req' = [req EXCEPT ![p] =
                        [r EXCEPT !.phase = "resp", !.status = st,
                                  !.listing = IF st = "ok"
                                              THEN RemoteListFileNames(r.account)
                                              ELSE <<>>]]
        /\ last' = NoResp
        /\ UNCHANGED <<clientVars, now, authTokenCache, issued, revoked, bucket, nextFileId,
                       fileListCache, bucketInfoCache, staleEntry, started,
                       idxVars>>

\* a variant of listFiles that stores what it returns whatever the answer was
ListCacheAlways(cache, a, st, listed) ==
    [cache EXCEPT ![a] = [has |-> TRUE, timestamp |-> now, files |-> listed]]

\* fileListCache.set after the answer st of b2_list_file_names: reached only
\* when response.ok, the throw of line 218 goes to the catch that returns []
ListCacheAfter(cache, a, st, listed) ==
    IF st = "ok"
    THEN [cache EXCEPT ![a] = [has |-> TRUE, timestamp |-> now, files |-> listed]]
    ELSE cache

\* bucketInfoCache.set after the answer st of b2_get_bucket_info: reached only
\* when response.ok, the other branches return a placeholder
InfoCacheAfter(cache, a, st, bucketInfo) ==
    IF st = "ok"
    THEN [cache EXCEPT ![a] = [has |-> TRUE, timestamp |-> now, info |-> bucketInfo]]
    ELSE cache

\* listFiles after its fetch (index.js:217-256)
ListReturn(p) ==
    LET r == req[p]
        a == r.account
        listed == ListingOf(r.listing, a)
    IN  /\ r.phase = "resp" /\ r.call = "list"
        /\ fileListCache' = ListCacheAfter(fileListCache, a, r.status, listed)
        /\ IF r.status = "ok"
           THEN /\ staleEntry' = [staleEntry EXCEPT ![a] = FALSE]
                /\ Respond(p, [RespOf(r, "return") EXCEPT !.files = listed,
                                                          !.fetched = TRUE])
           ELSE /\ Respond(p, FailResp(r))
                /\ UNCHANGED staleEntry
        /\ UNCHANGED <<clientVars, now, authTokenCache, issued, revoked, bucket, nextFileId,
                       bucketInfoCache, started, idxVars>>

\* getBucketInfo after its fetch (index.js:157-177); bucketConfig[account].bucketId
\* is set for every account of the model
InfoReturn(p) ==
    LET r == req[p]
        a == r.account
        bucketInfo == [bucketName |-> bucketConfig[a].bucketName]
    IN  /\ Waiting(p, "info", "bucket_info")
        /\ \E st \in Outcomes(r) :
              /\ StoreAnswers(r, st)
              /\ bucketInfoCache' = InfoCacheAfter(bucketInfoCache, a, st, bucketInfo)
              /\ IF st = "ok"
                 THEN Respond(p, [RespOf(r, "return") EXCEPT !.info = bucketInfo,
                                                             !.fetched = TRUE])
                 ELSE Respond(p, FailResp([r EXCEPT !.status = st]))
        /\ UNCHANGED <<clientVars, now, authTokenCache, revoked, fileListCache,
                       staleEntry, started, idxVars>>

\* a mutation of account a has succeeded and is about to respond: the history
\* variable records whether a listing entry of a survives it
MarkStale(listCache, a) == [staleEntry EXCEPT ![a] = listCache[a].has]

\* POST /upload after b2_get_upload_url (index.js:414-434)
UploadUrlReturn(p) ==
    LET r == req[p]
    IN  /\ Waiting(p, "upload", "get_upload_url")
        /\ \E st \in Outcomes(r) :
              /\ StoreAnswers(r, st)
              /\ IF st = "ok"
                 THEN /\ req' = [req EXCEPT ![p] = IssueCall(r, "upload_file")]
                      /\ last' = NoResp
                 ELSE Respond(p, FailResp([r EXCEPT !.status = st]))
        /\ UNCHANGED <<clientVars, now, authTokenCache, revoked, fileListCache, bucketInfoCache,
                       staleEntry, started, idxVars>>

\* POST /upload after the transfer (index.js:436-456)
UploadReturn(p) ==
    LET r == req[p]
        a == r.account
    IN  /\ Waiting(p, "upload", "upload_file")
        /\ \E st \in Outcomes(r) :
              /\ StoreAnswers(r, st)
              /\ IF st = "ok"
                 THEN /\ fileListCache' = DropListing(fileListCache, a)
                      /\ bucketInfoCache' = DropInfo(bucketInfoCache, a)
                      /\ staleEntry' = MarkStale(fileListCache', a)
                      /\ RespondMutation(p, [RespOf(r, "200") EXCEPT
                                                 !.hadEntry = fileListCache[a].has], a)
                 ELSE /\ Respond(p, FailResp([r EXCEPT !.status = st]))
                      /\ UNCHANGED <<fileListCache, bucketInfoCache, staleEntry>>
        /\ UNCHANGED <<clientVars, now, authTokenCache, revoked, started, idxVars>>

\* POST /rename-file after b2_copy_file (index.js:510-527)
CopyReturn(p) ==
    LET r == req[p]
    IN  /\ Waiting(p, "rename", "copy")
        /\ \E st \in Outcomes(r) :
              /\ StoreAnswers(r, st)
              /\ IF st = "ok"
                 THEN /\ req' = [req EXCEPT ![p] =
                                  IssueCall([r EXCEPT !.newFileId = nextFileId], "delete")]
                      /\ last' = NoResp
                 ELSE Respond(p, FailResp([r EXCEPT !.status = st]))
        /\ UNCHANGED <<clientVars, now, authTokenCache, revoked, fileListCache, bucketInfoCache,
                       staleEntry, started, idxVars>>

\* POST /rename-file after b2_delete_file_version (index.js:529-544)
RenameDeleteReturn(p) ==
    LET r == req[p]
        a == r.account
    IN  /\ Waiting(p, "rename", "delete")
        /\ \E st \in Outcomes(r) :
              /\ StoreAnswers(r, st)
              /\ IF st = "ok"
                 THEN /\ fileListCache' = DropListing(fileListCache, a)
                      /\ staleEntry' = MarkStale(fileListCache', a)
                      /\ RespondMutation(p, [RespOf(r, "200") EXCEPT
                                                 !.hadEntry = fileListCache[a].has], a)
                 ELSE /\ Respond(p, FailResp([r EXCEPT !.status = st]))
                      /\ UNCHANGED <<fileListCache, staleEntry>>
        /\ UNCHANGED <<clientVars, now, authTokenCache, revoked, bucketInfoCache, started,
                       idxVars>>

\* POST /delete-file after b2_delete_file_version (index.js:583-595)
DeleteReturn(p) ==
    LET r == req[p]
        a == r.account
    IN  /\ Waiting(p, "delete", "delete")
        /\ \E st \in Outcomes(r) :
              /\ StoreAnswers(r, st)
              /\ IF st = "ok"
                 THEN /\ fileListCache' = DropListing(fileListCache, a)
                      /\ bucketInfoCache' = DropInfo(bucketInfoCache, a)
                      /\ staleEntry' = MarkStale(fileListCache', a)
                      /\ RespondMutation(p, [RespOf(r, "200") EXCEPT
                                                 !.hadEntry = fileListCache[a].has], a)
                 ELSE /\ Respond(p, FailResp([r EXCEPT !.status = st]))
                      /\ UNCHANGED <<fileListCache, bucketInfoCache, staleEntry>>
        /\ UNCHANGED <<clientVars, now, authTokenCache, revoked, started, idxVars>>

\* GET /files/:account/:filename after b2_get_download_authorization
ServeReturn(p) ==
    LET r == req[p]
    IN  /\ Waiting(p, "serve", "download_auth")
        /\ \E st \in Outcomes(r) :
              /\ StoreAnswers(r, st)
              /\ Respond(p, IF st = "ok" THEN RespOf(r, "302")
                            ELSE FailResp([r EXCEPT !.status = st]))
        /\ UNCHANGED <<clientVars, now, authTokenCache, revoked, fileListCache, bucketInfoCache,
                       staleEntry, started, idxVars>>

(***************************************************************************)
(* The metadata server (src/models/File.js, Folder schema at the end of    *)
(* src/index.js): folders, file records and the upload pipeline.  Strings  *)
(* that are assembled from pieces keep "/" as an element of its own.       *)
(***************************************************************************)
\* null, for fields that hold a string or a number: the empty sequence; a
\* number n is held as <<n>>
Null == <<>>

NoRes ==
    [op |-> "none", status |-> "", id |-> 0, objectId |-> 0, video |-> FALSE,
     remote |-> "", probeFailed |-> FALSE, thumb |-> "", saved |-> FALSE,
     recordId |-> 0, nDelete |-> 0, stage |-> 0, db |-> "",
     account |-> "", authOk |-> FALSE, authCalls |-> 0, count |-> 0,
     emptied |-> {}, ids |-> {}]

\* mongoose `trim: true`: String.prototype.trim
RECURSIVE TrimStart(_)
TrimStart(s) == IF Len(s) > 0 /\ s[1] = " " THEN TrimStart(Tail(s)) ELSE s

RECURSIVE TrimEnd(_)
TrimEnd(s) == IF Len(s) > 0 /\ s[Len(s)] = " " THEN TrimEnd(Front(s)) ELSE s

Trim(s) == TrimEnd(TrimStart(s))

\* Model.findById
Has(coll, id) == \E d \in coll : d.id = id

Doc(coll, id) == CHOOSE d \in coll : d.id = id

\* new Folder({ name, parent, path, account }): the schema trims the name
NewFolder(id, name, parent, path, account) ==
    [id |-> id, name |-> Trim(name), parent |-> parent, path |-> path,
     account |-> account]

\* the Folder schema's validation: name and path are required
ValidFolder(doc) == doc.name # <<>> /\ doc.path # <<>>

\* `${parentFolder.path}/${name}`
ChildPath(parentPath, name) == parentPath \o <<"/">> \o name

\* a variant of the file count that sees no file
NoFiles(id) == 0

\* a variant of the file count that counts the files of every folder
AllFiles(id) == Cardinality(files)

\* File.countDocuments({ folder: id })
FilesCount(id) == Cardinality({f \in files : f.folder = id})

\* a variant of the subfolder count that sees no subfolder
NoSubfolders(id) == 0

\* Folder.countDocuments({ parent: id })
SubfoldersCount(id) == Cardinality({f \in folders : f.parent = id})

\* index of the first occurrence of old in s at or after i, 0 when there is none
RECURSIVE IndexOfSeq(_, _, _)
IndexOfSeq(s, old, i) ==
    IF i + Len(old) - 1 > Len(s) THEN 0
    ELSE IF SubSeq(s, i, i + Len(old) - 1) = old THEN i
    ELSE IndexOfSeq(s, old, i + 1)

\* s.replace(old, new) with a string pattern: the first occurrence only
ReplaceFirst(s, old, new) ==
    LET k == IndexOfSeq(s, old, 1)
    IN  IF k = 0 THEN s
        ELSE SubSeq(s, 1, k - 1) \o new \o SubSeq(s, k + Len(old), Len(s))

\* Folder.find({ path: { $regex: `^${oldPath}/` } }); the names of the model hold
\* no character that is special in a regular expression
SubfoldersByPath(fs, oldPath) == {f \in fs : IsPrefix(oldPath \o <<"/">>, f.path)}

\* updateSubfolderPaths(oldPath, newPath) over the collection fs; the documents
\* are saved in the order of their ids and the save of document failAt throws
\* (failAt = 0: no save throws)
UpdateSubfolderPaths(fs, oldPath, newPath, failAt) ==
    LET subfolders == SubfoldersByPath(fs, oldPath)
        saved == {f \in subfolders : failAt = 0 \/ f.id < failAt}
    IN  (fs \ saved) \cup
        {[f EXCEPT !.path = ReplaceFirst(f.path, oldPath, newPath)] : f \in saved}

\* the entry of a folder in a breadcrumb
Crumb(folder) == [id |-> folder.id, name |-> folder.name]

\* an entry added at the end of the breadcrumb (never the case)
Push(breadcrumb, folder) == breadcrumb \o <<Crumb(folder)>>

\* breadcrumb.unshift({ id, name })
Unshift(breadcrumb, folder) == <<Crumb(folder)>> \o breadcrumb

\* getBreadcrumbPath: the loop over the parent references, which stops at a
\* folder without parent and at a parent that is not found
RECURSIVE WalkParents(_, _, _)
WalkParents(fs, currentFolder, breadcrumb) ==
    IF currentFolder.parent = 0 THEN breadcrumb
    ELSE IF Has(fs, currentFolder.parent)
    THEN WalkParents(fs, Doc(fs, currentFolder.parent),
                     Unshift(breadcrumb, Doc(fs, currentFolder.parent)))
    ELSE breadcrumb

\* getBreadcrumbPath(folderId) over the collection fs
GetBreadcrumbPath(fs, folderId) ==
    IF folderId = 0 THEN <<>>
    ELSE IF ~Has(fs, folderId) THEN <<>>
    ELSE WalkParents(fs, Doc(fs, folderId), Unshift(<<>>, Doc(fs, folderId)))

\* folder names and account fields a client may send; <<>> is a missing field
FolderNames == {<<>>, <<"a">>, <<"b">>, <<"a", " ">>}
FolderAccounts == {"", "account2"}
DbOutcomes == {"ok", "error"}

\* the ids a client may send: null (0) and those the index has handed out
KnownIds == 0..(nextDocId - 1)

\* a request reaches its handler
IdxBegin == started' = started + 1

\* POST /api/folders
CreateFolder(name, parent, account, db) ==
    LET folderAccount == IF account = "" THEN "account1" ELSE account
        path == IF parent # 0 /\ Has(folders, parent)
                THEN ChildPath(Doc(folders, parent).path, name)
                ELSE name
        folder == NewFolder(nextDocId, name, parent, path, folderAccount)
        r == [NoRes EXCEPT !.op = "createFolder", !.id = nextDocId]
    IN  /\ IdxBegin
        /\ nextDocId <= MaxDocs
        /\ IF name = <<>>
           THEN /\ res' = [r EXCEPT !.status = "400"]
                /\ UNCHANGED <<folders, nextDocId>>
           ELSE IF parent # 0 /\ ~Has(folders, parent)
           THEN /\ res' = [r EXCEPT !.status = "404"]
                /\ UNCHANGED <<folders, nextDocId>>
           ELSE IF ValidFolder(folder) /\ db = "ok"
           THEN /\ folders' = folders \cup {folder}
                /\ nextDocId' = nextDocId + 1
                /\ res' = [r EXCEPT !.status = "201"]
           ELSE /\ res' = [r EXCEPT !.status = "500"]
                /\ UNCHANGED <<folders, nextDocId>>
        /\ UNCHANGED <<clientVars, sharedVars, fileListCache, bucketInfoCache, req, staleEntry,
                       files, tempFiles, nextStageId>>

\* DELETE /api/folders/:id
DeleteFolder(id, db) ==
    LET r == [NoRes EXCEPT !.op = "deleteFolder", !.id = id, !.emptied = res.emptied]
    IN  /\ IdxBegin
        /\ IF ~Has(folders, id)
           THEN /\ res' = [r EXCEPT !.status = "404"]
                /\ UNCHANGED folders
           ELSE IF FilesCount(id) > 0 \/ SubfoldersCount(id) > 0
           THEN /\ res' = [r EXCEPT !.status = "400"]
                /\ UNCHANGED folders
           ELSE IF db = "ok"
           THEN /\ folders' = folders \ {Doc(folders, id)}
                /\ res' = [r EXCEPT !.status = "200", !.db = db]
           ELSE /\ res' = [r EXCEPT !.status = "500", !.db = db]
                /\ UNCHANGED folders
        /\ UNCHANGED <<clientVars, sharedVars, fileListCache, bucketInfoCache, req, staleEntry,
                       files, tempFiles, nextDocId, nextStageId>>

\* PUT /api/folders/:id
RenameFolder(id, name, db, failAt) ==
    LET r == [NoRes EXCEPT !.op = "renameFolder", !.id = id]
        folder == Doc(folders, id)
        oldPath == folder.path
        newPath == IF folder.parent # 0
                   THEN ChildPath(Doc(folders, folder.parent).path, name)
                   ELSE name
        renamed == [folder EXCEPT !.name = Trim(name), !.path = newPath]
        saved == (folders \ {folder}) \cup {renamed}
    IN  /\ IdxBegin
        /\ IF name = <<>>
           THEN /\ res' = [r EXCEPT !.status = "400"]
                /\ UNCHANGED folders
           ELSE IF ~Has(folders, id)
           THEN /\ res' = [r EXCEPT !.status = "404"]
                /\ UNCHANGED folders
           ELSE IF \/ folder.parent # 0 /\ ~Has(folders, folder.parent)
                   \/ ~ValidFolder(renamed)
                   \/ db = "error"
           THEN /\ res' = [r EXCEPT !.status = "500"]
                /\ UNCHANGED folders
           ELSE /\ failAt \in {0} \cup {f.id : f \in SubfoldersByPath(saved, oldPath)}
                /\ folders' = UpdateSubfolderPaths(saved, oldPath, newPath, failAt)
                /\ res' = [r EXCEPT !.status = IF failAt = 0 THEN "200" ELSE "500"]
        /\ UNCHANGED <<clientVars, sharedVars, fileListCache, bucketInfoCache, req, staleEntry,
                       files, tempFiles, nextDocId, nextStageId>>

\* path.extname: from the last "." on, nothing when the name has none or starts
\* with its only "."
ExtName(s) ==
    LET k == LastIndexOf(s, ".", Len(s))
    IN  IF k <= 1 THEN <<>> ELSE SubSeq(s, k, Len(s))

\* path.basename(name, path.extname(name))
BaseName(s) == SubSeq(s, 1, Len(s) - Len(ExtName(s)))

\* fileTitle.replace(/[^a-zA-Z0-9]/g, '_')
SafeTitle(title) == [i \in 1..Len(title) |-> IF IsAlnum(title[i]) THEN title[i] ELSE "_"]

VideoPrefix == <<"v", "i", "d", "e", "o", "/">>

\* file.mimetype.startsWith('video/')
IsVideo(mimetype) == IsPrefix(VideoPrefix, mimetype)

MimeTypes == {VideoPrefix \o <<"m", "p", "4">>,
              <<"i", "m", "a", "g", "e", "/", "p", "n", "g">>}

\* the accounts a client sends with an upload: a configured one, an unknown one
UploadAccounts == {"account1", "other"}

\* titles a client may send to the metadata server; <<>> is a missing field
IdxTitles == {<<>>, <<"a">>, <<" ">>}

\* what ffprobe reports: an error, or the duration in seconds
ProbeResults == {[err |-> TRUE, duration |-> 0], [err |-> FALSE, duration |-> 0],
                 [err |-> FALSE, duration |-> 7]}

\* a folder id that is no ObjectId
MalformedId == 0 - 1

\* where uploadFileToB2 can fail for the account: at the authorization when no
\* token is cached, at b2_get_upload_url, at the transfer
UploadOutcomes(cache, a) ==
    {"ok", "url", "transfer"} \cup (IF cache[a] = 0 THEN {"auth"} ELSE {})

\* the token cache after getAuthToken(a) inside uploadFileToB2 ending as out
TokenCacheAfter(cache, a, out) ==
    IF cache[a] = 0 /\ out # "auth" THEN StoreToken(cache, a, issued[a] + 1) ELSE cache

\* a variant that records whatever the probe left
AnyDuration(probe) == <<probe.duration>>

\* the duration the record gets from the probe: if (duration)
DurationOf(probe) == IF ~probe.err /\ probe.duration # 0 THEN <<probe.duration>> ELSE Null

\* `/thumbnails/${account}/${thumbnailFileName}`
ThumbnailUrl(account, thumbnailFileName) ==
    <<"/", "thumbnails", "/", account, "/">> \o thumbnailFileName

\* a variant of the cleanup that leaves the file
KeepTemp(temps, path) == temps

\* the temp directory after fs.unlinkSync(path)
Unlink(temps, path) == temps \ {path}

\* the File schema's validation: the trimmed title is required, the folder is an
\* ObjectId or null
ValidFile(doc) == doc.title # <<>> /\ doc.folder # MalformedId

\* POST /upload of the metadata server: the file name without its extension
IdxFilename(title, originalname, timestamp) ==
    LET fileTitle == IF title = <<>> THEN BaseName(originalname) ELSE title
    IN  SafeTitle(fileTitle) \o <<"_">> \o NatToStr(timestamp)

\* POST /upload of the metadata server: the storage key of an upload made at
\* timestamp (Date.now())
IdxUploadKey(title, originalname, timestamp) ==
    LET filename == IdxFilename(title, originalname, timestamp)
        extension == ExtName(originalname)
        fullFilename == filename \o extension
    IN  FilesPrefix \o fullFilename

\* POST /upload of the metadata server.  multer has stored the body in the temp
\* directory before the handler runs; out is where uploadFileToB2 fails, probe
\* what ffprobe reports, thumb where generateVideoThumbnail fails, db whether
\* fileRecord.save() succeeds at the database.
IdxUpload(account, title, originalname, folderId, mimetype, out, probe, thumb, db) ==
    LET path == <<nextStageId, "upload">>
        staged == tempFiles \cup {path}
        r == [NoRes EXCEPT !.op = "upload", !.stage = nextStageId,
                           !.video = IsVideo(mimetype)]
        fileTitle == IF title = <<>> THEN BaseName(originalname) ELSE title
        timestamp == now
        filename == IdxFilename(title, originalname, timestamp)
        b2FileName == IdxUploadKey(title, originalname, timestamp)
        fullFilename == StripFilesPrefix(b2FileName)
        thumbnailFileName == filename \o <<".", "j", "p", "g">>
        thumbPath == <<nextStageId, "thumb">>
        video == IsVideo(mimetype)
        thumbStored == video /\ thumb = "ok"
        fileRecord ==
            [id |-> nextDocId, title |-> Trim(fileTitle), fileName |-> fullFilename,
             fullFileName |-> b2FileName, fileId |-> nextFileId, account |-> account,
             folder |-> folderId, uploadTimestamp |-> timestamp,
             duration |-> IF video THEN DurationOf(probe) ELSE Null,
             thumbnailUrl |-> IF thumbStored
                              THEN ThumbnailUrl(account, thumbnailFileName) ELSE Null]
        uploaded == [fileName |-> b2FileName, fileId |-> nextFileId,
                     uploadTimestamp |-> now]
        thumbnail == [fileName |-> <<"t", "h", "u", "m", "b", "n", "a", "i", "l", "s", "/">>
                                      \o thumbnailFileName,
                      fileId |-> nextFileId + 1, uploadTimestamp |-> now]
        \* the thumbnail file ffmpeg wrote stays when its upload throws
        thumbLeft == IF video /\ thumb \in {"url", "transfer"} THEN {thumbPath} ELSE {}
    IN  /\ IdxBegin
        /\ nextDocId <= MaxDocs
        /\ nextFileId + 1 <= MaxObjects
        /\ nextStageId' = nextStageId + 1
        /\ IF account \notin DOMAIN bucketConfig
           THEN /\ res' = [r EXCEPT !.status = "400"]
                /\ tempFiles' = staged
                /\ UNCHANGED <<authTokenCache, issued, bucket, nextFileId, files, nextDocId>>
           ELSE /\ out \in UploadOutcomes(authTokenCache, account)
                /\ authTokenCache' = TokenCacheAfter(authTokenCache, account, out)
                /\ issued' = IF authTokenCache'[account] # authTokenCache[account]
                             THEN [issued EXCEPT ![account] = @ + 1] ELSE issued
                /\ IF out # "ok"
                   THEN /\ res' = [r EXCEPT !.status = "500", !.remote = out]
                        /\ tempFiles' = Unlink(staged, path)
                        /\ UNCHANGED <<bucket, nextFileId, files, nextDocId>>
                   ELSE /\ bucket' = [bucket EXCEPT ![account] =
                                        @ \cup {uploaded}
                                          \cup (IF thumbStored THEN {thumbnail} ELSE {})]
                        /\ nextFileId' = nextFileId + (IF thumbStored THEN 2 ELSE 1)
                        /\ IF ValidFile(fileRecord) /\ db = "ok"
                           THEN /\ files' = files \cup {fileRecord}
                                /\ nextDocId' = nextDocId + 1
                                /\ tempFiles' = Unlink(staged, path) \cup thumbLeft
                                /\ res' = [r EXCEPT !.status = "201",
                                                    !.remote = out, !.saved = TRUE,
                                                    !.objectId = nextFileId,
                                                    !.recordId = nextDocId,
                                                    !.probeFailed = video /\ probe.err,
                                                    !.thumb = IF video THEN thumb ELSE ""]
                           ELSE /\ tempFiles' = Unlink(staged, path) \cup thumbLeft
                                /\ res' = [r EXCEPT !.status = "500",
                                                    !.remote = out,
                                                    !.objectId = nextFileId,
                                                    !.probeFailed = video /\ probe.err,
                                                    !.thumb = IF video THEN thumb ELSE ""]
                                /\ UNCHANGED <<files, nextDocId>>
        /\ UNCHANGED <<clientVars, now, revoked, last, fileListCache, bucketInfoCache, req,
                       staleEntry, folders>>

\* an ObjectId that names no document
MissingId == MaxDocs + 1

\* the file ids a client may send: those of the records and one of no record
ClientFileIds == {f.id : f \in files} \cup {MissingId}

\* history: the folders out of which a request has moved a file; kept over
\* the requests that move files and delete folders
EmptiedBy(fileIds, folderId) ==
    {f.folder : f \in {g \in files : g.id \in fileIds /\ g.folder # 0
                                                  /\ g.folder # folderId}}

\* a count of the ids that were sent
RequestedCount(fileIds, folderId) == Cardinality(fileIds)

\* updateResult.modifiedCount: the number of matched documents whose folder
\* was changed
ModifiedCount(fileIds, folderId) ==
    Cardinality({f \in files : f.id \in fileIds /\ f.folder # folderId})

\* POST /api/files/move
MoveFiles(fileIds, folderId, db) ==
    LET r == [NoRes EXCEPT !.op = "move", !.id = folderId, !.ids = fileIds,
                           !.emptied = res.emptied]
    IN  /\ IdxBegin
        /\ IF folderId # 0 /\ ~Has(folders, folderId)
           THEN /\ res' = [r EXCEPT !.status = "404"]
                /\ UNCHANGED files
           ELSE IF db = "ok"
           THEN /\ files' = {IF f.id \in fileIds THEN [f EXCEPT !.folder = folderId] ELSE f :
                               f \in files}
                /\ res' = [r EXCEPT !.status = "200", !.db = db,
                                    !.count = ModifiedCount(fileIds, folderId),
                                    !.emptied = @ \cup EmptiedBy(fileIds, folderId)]
           ELSE /\ res' = [r EXCEPT !.status = "500", !.db = db]
                /\ UNCHANGED files
        /\ UNCHANGED <<clientVars, sharedVars, fileListCache, bucketInfoCache, req, staleEntry,
                       folders, tempFiles, nextDocId, nextStageId>>

\* a handler that gives up when the object store refused (never the case)
StopOnRemoteFailure(b2) == b2 = "ok"

\* the catch around the deletions at the object store: the handler goes on to
\* the database whatever deleteFileFromB2 did
ContinueAfterB2(b2) == TRUE

\* `thumbnails/${path.basename(file.thumbnailUrl.split('/').pop())}`
ThumbnailKey(thumbnailUrl) ==
    <<"t", "h", "u", "m", "b", "n", "a", "i", "l", "s", "/">> \o SplitPop(thumbnailUrl, "/")

\* POST /api/files/delete; remote is what b2_delete_file_version answers for the
\* file: the thumbnail is deleted with fileId null, which names no version
DeleteFile(fileId, authOk, remote, db) ==
    LET file == Doc(files, fileId)
        a == file.account
        authorized == authTokenCache[a] # 0 \/ authOk
        exists == \E o \in bucket[a] : o.fileId = file.fileId /\ o.fileName = file.fullFileName
        deleted == authorized /\ remote = "ok" /\ exists
        b2 == IF ~authorized THEN "auth" ELSE IF deleted THEN "ok" ELSE "error"
        r == [NoRes EXCEPT !.op = "deleteFile", !.id = fileId]
        rr == [r EXCEPT !.remote = b2, !.db = db,
                        !.nDelete = IF ~authorized THEN 0
                                    ELSE IF deleted /\ file.thumbnailUrl # Null
                                    THEN 2 ELSE 1]
    IN  /\ IdxBegin
        /\ IF ~Has(files, fileId)
           THEN /\ res' = [r EXCEPT !.status = "404"]
                /\ UNCHANGED <<authTokenCache, issued, bucket, files>>
           ELSE /\ authTokenCache' = IF authTokenCache[a] = 0 /\ authOk
                                     THEN StoreToken(authTokenCache, a, issued[a] + 1)
                                     ELSE authTokenCache
                /\ issued' = IF authTokenCache[a] = 0 /\ authOk
                             THEN [issued EXCEPT ![a] = @ + 1] ELSE issued
                /\ bucket' = IF deleted /\ file.thumbnailUrl # Null
                             THEN [bucket EXCEPT ![a] =
                                     DeleteVersion(
                                        DeleteVersion(@, file.fileId, file.fullFileName),
                                        0, ThumbnailKey(file.thumbnailUrl))]
                             ELSE IF deleted
                             THEN [bucket EXCEPT ![a] =
                                     DeleteVersion(@, file.fileId, file.fullFileName)]
                             ELSE bucket
                /\ IF ContinueAfterB2(b2) /\ db = "ok"
                   THEN /\ files' = files \ {file}
                        /\ res' = [rr EXCEPT !.status = "200"]
                   ELSE /\ res' = [rr EXCEPT !.status = "500"]
                        /\ UNCHANGED files
        /\ UNCHANGED <<clientVars, now, revoked, nextFileId, last, fileListCache, bucketInfoCache,
                       req, staleEntry, folders, tempFiles, nextDocId, nextStageId>>

\* a rename that also rebuilds the stored file name (never the case)
RetitledAndRenamed(file, newTitle) ==
    [file EXCEPT !.title = Trim(newTitle),
                 !.fileName = SafeTitle(newTitle) \o ExtName(file.fileName)]

\* file.title = newTitle; the schema trims the title when the record is saved
Retitled(file, newTitle) == [file EXCEPT !.title = Trim(newTitle)]

\* POST /api/files/rename
RenameFile(fileId, newTitle, db) ==
    LET r == [NoRes EXCEPT !.op = "renameFile", !.id = fileId]
        file == Doc(files, fileId)
        renamed == Retitled(file, newTitle)
    IN  /\ IdxBegin
        /\ IF fileId = 0 \/ newTitle = <<>>
           THEN /\ res' = [r EXCEPT !.status = "400"]
                /\ UNCHANGED files
           ELSE IF ~Has(files, fileId)
           THEN /\ res' = [r EXCEPT !.status = "404"]
                /\ UNCHANGED files
           ELSE IF ValidFile(renamed) /\ db = "ok"
           THEN /\ files' = (files \ {file}) \cup {renamed}
                /\ res' = [r EXCEPT !.status = "200"]
           ELSE /\ res' = [r EXCEPT !.status = "500"]
                /\ UNCHANGED files
        /\ UNCHANGED <<clientVars, sharedVars, fileListCache, bucketInfoCache, req, staleEntry,
                       folders, tempFiles, nextDocId, nextStageId>>

\* a BUCKET_CONFIG that names three accounts
ExtendedConfig == Accounts \cup {"account3"}

\* account keys a client may put in the URL of a served file
ServeAccounts == ExtendedConfig \cup {"other"}

\* a check that lets every account key pass (never the case)
AnyAccount(account) == TRUE

\* bucketConfig[account] of the serving routes
ServeConfigured(account) == account \in ExtendedConfig

\* getAuthToken: the accounts whose key id and application key it reads from
\* the environment; for every other account it throws 'Invalid account'
HasCredentials(account) == account \in {"account1", "account2"}

\* GET /files/:account/:filename and GET /thumbnails/:account/:filename of the
\* metadata server, with getDownloadUrl and getAuthToken; authOk is whether the
\* store accepts the account's credentials, dl what
\* b2_get_download_authorization answers
ServeFile(account, prefix, authOk, dl) ==
    LET r == [NoRes EXCEPT !.op = prefix, !.account = account, !.authOk = authOk]
        cached == account \in Accounts /\ authTokenCache[account] # 0
        served == [r EXCEPT !.remote = dl,
                            !.status = IF dl = "ok" THEN "302" ELSE "500"]
    IN  /\ IdxBegin
        /\ IF ~ServeConfigured(account)
           THEN /\ res' = [r EXCEPT !.status = "400"]
                /\ UNCHANGED <<authTokenCache, issued>>
           ELSE IF cached
           THEN /\ res' = served
                /\ UNCHANGED <<authTokenCache, issued>>
           ELSE IF ~HasCredentials(account)
           THEN /\ res' = [r EXCEPT !.status = "500", !.remote = "invalid"]
                /\ UNCHANGED <<authTokenCache, issued>>
           ELSE IF ~authOk
           THEN /\ res' = [r EXCEPT !.status = "500", !.remote = "auth",
                                    !.authCalls = 1]
                /\ UNCHANGED <<authTokenCache, issued>>
           ELSE /\ authTokenCache' = StoreToken(authTokenCache, account,
                                                issued[account] + 1)
                /\ issued' = [issued EXCEPT ![account] = @ + 1]
                /\ res' = [served EXCEPT !.authCalls = 1]
        /\ UNCHANGED <<clientVars, now, revoked, bucket, nextFileId, last, fileListCache,
                       bucketInfoCache, req, staleEntry, folders, files, tempFiles,
                       nextDocId, nextStageId>>

(***************************************************************************)
(* The gateway's specification.                                            *)
(***************************************************************************)
(***************************************************************************)
(* The browser's upload queue (public/js/main.js).  Every handler runs to  *)
(* its end before the next event is taken.                                 *)
(***************************************************************************)
MaxItems == 4

\* the requests sent are counted modulo this number
SendModulus == 2

ItemIds == 1..MaxItems

\* uploadQueueList = [], isUploading = false
InitClient ==
    /\ uploadQueueList = <<>>
    /\ isUploading = FALSE
    /\ itemStatus = [i \in ItemIds |-> "none"]
    /\ xhrs = <<>>
    /\ timeouts = {}
    /\ nextItemId = 1
    /\ sendCount = 0

\* s without its k-th element
RemoveAt(s, k) == SubSeq(s, 1, k - 1) \o SubSeq(s, k + 1, Len(s))

\* uploadQueueList.findIndex(item => item.id === id), 0 for -1
RECURSIVE FindIndex(_, _, _)
FindIndex(queue, id, i) ==
    IF i > Len(queue) THEN 0
    ELSE IF queue[i] = id THEN i ELSE FindIndex(queue, id, i + 1)

\* removeFromUploadQueue(id)
RemoveFromUploadQueue(queue, id) ==
    LET index == FindIndex(queue, id, 1)
    IN  IF index # 0 THEN RemoveAt(queue, index) ELSE queue

\* a processUploadQueue that leaves the flag as it found it
Unclaimed(flag) == flag

\* isUploading = true
Claimed(flag) == TRUE

\* processUploadQueue() called with the queue, the flag, the item objects and
\* the requests in flight as the caller has left them
ProcessUploadQueue(queue, flag, status, inflight) ==
    /\ uploadQueueList' = queue
    /\ IF Len(queue) = 0 \/ flag
       THEN /\ isUploading' = flag
            /\ itemStatus' = status
            /\ xhrs' = inflight
            /\ UNCHANGED sendCount
       ELSE LET item == queue[1]
            IN  /\ isUploading' = Claimed(flag)
                /\ itemStatus' = [status EXCEPT ![item] = "uploading"]
                /\ xhrs' = Append(inflight, item)
                /\ sendCount' = (sendCount + 1) % SendModulus

\* the items the form's loop adds: addToUploadQueue for each file
RECURSIVE AddToUploadQueue(_, _, _)
AddToUploadQueue(queue, id, n) ==
    IF n = 0 THEN queue ELSE AddToUploadQueue(Append(queue, id), id + 1, n - 1)

\* the submit handler of the upload form with n files selected
SubmitUploadForm(n) ==
    LET added == nextItemId..(nextItemId + n - 1)
        queue == AddToUploadQueue(uploadQueueList, nextItemId, n)
        status == [i \in ItemIds |-> IF i \in added THEN "queued" ELSE itemStatus[i]]
    IN  /\ nextItemId + n - 1 <= MaxItems
        /\ nextItemId' = nextItemId + n
        /\ IF ~isUploading
           THEN ProcessUploadQueue(queue, isUploading, status, xhrs)
           ELSE /\ uploadQueueList' = queue
                /\ itemStatus' = status
                /\ UNCHANGED <<isUploading, xhrs, sendCount>>
        /\ UNCHANGED timeouts

\* a click on the cancel button of an item; the button is not rendered for a
\* completed item.  The request of an item that is being uploaded goes on.
        /\ UNCHANGED serverVars
CancelItem(id) ==
    /\ FindIndex(uploadQueueList, id, 1) # 0
    /\ itemStatus[id] # "completed"
    /\ uploadQueueList' = RemoveFromUploadQueue(uploadQueueList, id)
    /\ UNCHANGED <<isUploading, itemStatus, xhrs, timeouts, nextItemId, sendCount>>

\* the error branch of xhr.onload and xhr.onerror for the request of item
    /\ UNCHANGED serverVars
UploadFailed(item, inflight) ==
    ProcessUploadQueue(uploadQueueList, FALSE,
                       [itemStatus EXCEPT ![item] = "error"], inflight)

\* xhr.onload of the k-th request in flight, answered with status code
XhrLoad(k, code) ==
    LET item == xhrs[k]
        inflight == RemoveAt(xhrs, k)
    IN  /\ k \in 1..Len(xhrs)
        /\ IF code = "201"
           THEN /\ itemStatus' = [itemStatus EXCEPT ![item] = "completed"]
                /\ timeouts' = timeouts \cup {item}
                /\ xhrs' = inflight
                /\ UNCHANGED <<uploadQueueList, isUploading, sendCount>>
           ELSE /\ UploadFailed(item, inflight)
                /\ UNCHANGED timeouts
        /\ UNCHANGED nextItemId

\* xhr.onerror of the k-th request in flight
        /\ UNCHANGED serverVars
XhrError(k) ==
    /\ k \in 1..Len(xhrs)
    /\ UploadFailed(xhrs[k], RemoveAt(xhrs, k))
    /\ UNCHANGED <<timeouts, nextItemId>>

\* the function passed to setTimeout(..., 3000) after a 201 for item
    /\ UNCHANGED serverVars
TimeoutFires(item) ==
    /\ item \in timeouts
    /\ timeouts' = timeouts \ {item}
    /\ ProcessUploadQueue(RemoveFromUploadQueue(uploadQueueList, item), FALSE,
                          itemStatus, xhrs)
    /\ UNCHANGED nextItemId
    /\ UNCHANGED serverVars

Responses ==
    \/ \E k \in 1..Len(xhrs), code \in {"201", "500"} : XhrLoad(k, code)
    \/ \E k \in 1..Len(xhrs) : XhrError(k)
    \/ \E item \in timeouts : TimeoutFires(item)

NextClient ==
    \/ \E n \in 1..2 : SubmitUploadForm(n)
    \/ \E id \in ItemIds : CancelItem(id)
    \/ Responses

Init ==
    /\ now = 0
    /\ authTokenCache = [a \in Accounts |-> 0]
    /\ issued = [a \in Accounts |-> 0]
    /\ revoked = [a \in Accounts |-> 0]
    /\ bucket = [a \in Accounts |-> {}]
    /\ nextFileId = 1
    /\ last = NoResp
    /\ fileListCache = [a \in Accounts |-> NoEntry]
    /\ bucketInfoCache = [a \in Accounts |-> NoInfoEntry]
    /\ req = [p \in Procs |-> Idle]
    /\ staleEntry = [a \in Accounts |-> FALSE]
    /\ started = 0
    /\ folders = {}
    /\ files = {}
    /\ res = NoRes
    /\ tempFiles = {}
    /\ nextDocId = 1
    /\ nextStageId = 1
    /\ InitClient

Requests ==
    \/ \E p \in Procs, a \in Accounts : StartList(p, a)
    \/ \E p \in Procs, a \in Accounts : StartInfo(p, a)
    \/ \E p \in Procs, a \in RequestAccounts, t \in Titles, o \in OriginalNames :
          StartUpload(p, a, t, o)
    \/ \E p \in Procs, a \in RequestAccounts, t \in Titles :
          \E f \in ClientFiles(a) : StartRename(p, a, f, t)
    \/ \E p \in Procs, a \in RequestAccounts :
          \E f \in ClientFiles(a) : StartDelete(p, a, f)
    \/ \E p \in Procs, a \in RequestAccounts :
          \E f \in ClientFiles(a) : StartServe(p, a, f)

Returns ==
    \/ \E p \in Procs : AuthReturn(p)
    \/ \E p \in Procs : RemoteList(p)
    \/ \E p \in Procs : ListReturn(p)
    \/ \E p \in Procs : InfoReturn(p)
    \/ \E p \in Procs : UploadUrlReturn(p)
    \/ \E p \in Procs : UploadReturn(p)
    \/ \E p \in Procs : CopyReturn(p)
    \/ \E p \in Procs : RenameDeleteReturn(p)
    \/ \E p \in Procs : DeleteReturn(p)
    \/ \E p \in Procs : ServeReturn(p)

\* the gateway serving its requests concurrently
Next == Requests \/ Returns \/ Tick

Spec == Init /\ [][Next]_vars

\* the browser's upload queue alone
SpecClient == Init /\ [][NextClient]_vars

\* every request in flight is answered and every timer fires
SpecClientFair == SpecClient /\ WF_vars(Responses)

\* the gateway serving listings and uploads only, concurrently: every object
\* of a bucket was stored by an upload that answered 200
NextUpload ==
    \/ \E p \in Procs, a \in Accounts : StartList(p, a)
    \/ \E p \in Procs, a \in RequestAccounts, t \in Titles, o \in OriginalNames :
          StartUpload(p, a, t, o)
    \/ \E p \in Procs : AuthReturn(p)
    \/ \E p \in Procs : RemoteList(p)
    \/ \E p \in Procs : ListReturn(p)
    \/ \E p \in Procs : UploadUrlReturn(p)
    \/ \E p \in Procs : UploadReturn(p)
    \/ Tick

SpecUpload == Init /\ [][NextUpload]_vars

\* the gateway serving one request at a time
AllIdle == \A p \in Procs : req[p].phase = "idle"

NextSeq ==
    \/ AllIdle /\ Requests
    \/ Returns
    \/ Tick

SpecSeq == Init /\ [][NextSeq]_vars

\* the same, with an object store that expires the tokens it has issued
NextAuth ==
    \/ NextSeq
    \/ \E a \in Accounts : ExpireTokens(a)

SpecAuth == Init /\ [][NextAuth]_vars

(***************************************************************************)
(* The metadata server's specification.                                    *)
(***************************************************************************)
\* the outcomes the environment chooses for an upload: only the steps the
\* request reaches have one
UploadAnswers(a) ==
    IF a \in DOMAIN bucketConfig THEN UploadOutcomes(authTokenCache, a) ELSE {"ok"}

Enriched(a, m, out) == a \in DOMAIN bucketConfig /\ out = "ok" /\ IsVideo(m)

ProbeAnswers(a, m, out) ==
    IF Enriched(a, m, out) THEN ProbeResults ELSE {[err |-> FALSE, duration |-> 0]}

ThumbAnswers(a, m, out) ==
    IF Enriched(a, m, out) THEN {"ok", "ffmpeg", "url", "transfer"} ELSE {"ok"}

SaveAnswers(a, out) ==
    IF a \in DOMAIN bucketConfig /\ out = "ok" THEN DbOutcomes ELSE {"ok"}

FolderRequests ==
    \/ \E name \in FolderNames, parent \in KnownIds, a \in FolderAccounts,
          db \in DbOutcomes : CreateFolder(name, parent, a, db)
    \/ \E id \in KnownIds \ {0}, db \in DbOutcomes : DeleteFolder(id, db)
    \/ \E id \in KnownIds \ {0}, name \in FolderNames, db \in DbOutcomes,
          failAt \in KnownIds : RenameFolder(id, name, db, failAt)

FileRequests ==
    \/ \E a \in UploadAccounts, t \in IdxTitles, o \in OriginalNames,
          folderId \in KnownIds \cup {MalformedId}, m \in MimeTypes :
          \E out \in UploadAnswers(a) :
             \E probe \in ProbeAnswers(a, m, out), thumb \in ThumbAnswers(a, m, out),
                db \in SaveAnswers(a, out) :
                IdxUpload(a, t, o, folderId, m, out, probe, thumb, db)
    \/ \E fileIds \in SUBSET ClientFileIds, folderId \in KnownIds,
          db \in DbOutcomes : MoveFiles(fileIds, folderId, db)
    \/ \E fileId \in KnownIds \ {0}, authOk \in BOOLEAN, remote \in {"ok", "error"},
          db \in DbOutcomes : DeleteFile(fileId, authOk, remote, db)
    \/ \E fileId \in KnownIds, t \in IdxTitles, db \in DbOutcomes :
          RenameFile(fileId, t, db)

\* the metadata server, all its handlers
NextIdx ==
    \/ started < MaxRequests /\ FolderRequests
    \/ started < MaxRequests /\ FileRequests

SpecIdx == Init /\ [][NextIdx]_vars

\* the metadata server's folder handlers alone, over longer runs
NextFolders == started < MaxFolderRequests /\ FolderRequests

SpecFolders == Init /\ [][NextFolders]_vars

\* the metadata server's file handlers alone
NextFiles == started < MaxFileRequests /\ FileRequests

SpecFiles == Init /\ [][NextFiles]_vars

\* The metadata server after POST /api/folders {name: 'a'} and two uploads of
\* v.png to account1, the first without a title and the second titled 'a':
\* folder 1 and the file records 2 and 3, both in the root.
UploadedRecord(id, title, objectId) ==
    LET key == IdxUploadKey(title, <<"v", ".", "p", "n", "g">>, 0)
    IN  [id |-> id,
         title |-> IF title = <<>> THEN <<"v">> ELSE title,
         fileName |-> StripFilesPrefix(key), fullFileName |-> key,
         fileId |-> objectId, account |-> "account1", folder |-> 0,
         uploadTimestamp |-> 0, duration |-> Null, thumbnailUrl |-> Null]

InitMove ==
    /\ now = 0
    /\ authTokenCache = [a \in Accounts |-> IF a = "account1" THEN 1 ELSE 0]
    /\ issued = [a \in Accounts |-> IF a = "account1" THEN 1 ELSE 0]
    /\ revoked = [a \in Accounts |-> 0]
    /\ bucket = [a \in Accounts |->
                   IF a = "account1"
                   THEN {[fileName |-> UploadedRecord(2, <<>>, 1).fullFileName,
                          fileId |-> 1, uploadTimestamp |-> 0],
                         [fileName |-> UploadedRecord(3, <<"a">>, 2).fullFileName,
                          fileId |-> 2, uploadTimestamp |-> 0]}
                   ELSE {}]
    /\ nextFileId = 3
    /\ last = NoResp
    /\ fileListCache = [a \in Accounts |-> NoEntry]
    /\ bucketInfoCache = [a \in Accounts |-> NoInfoEntry]
    /\ req = [p \in Procs |-> Idle]
    /\ staleEntry = [a \in Accounts |-> FALSE]
    /\ started = 0
    /\ folders = {NewFolder(1, <<"a">>, 0, <<"a">>, "account1")}
    /\ files = {UploadedRecord(2, <<>>, 1), UploadedRecord(3, <<"a">>, 2)}
    /\ res = NoRes
    /\ tempFiles = {}
    /\ nextDocId = 4
    /\ nextStageId = 3
    /\ InitClient

\* moving and renaming files and deleting folders, from that state
NextMove ==
    /\ started < MaxMoveRequests
    /\ \/ \E fileIds \in SUBSET ClientFileIds, folderId \in KnownIds,
             db \in DbOutcomes : MoveFiles(fileIds, folderId, db)
       \/ \E id \in KnownIds \ {0}, db \in DbOutcomes : DeleteFolder(id, db)
       \/ \E fileId \in KnownIds, t \in IdxTitles, db \in DbOutcomes :
             RenameFile(fileId, t, db)

SpecMove == InitMove /\ [][NextMove]_vars

\* getBreadcrumbPath as a function of the folder collection and the folder id.
\* The collections are those the folder handlers leave: ids in the order of
\* creation, every parent created before its children and present with them.
CrumbIds == 1..MaxCrumbFolders
CrumbNames == {<<"a">>, <<"b">>}

RECURSIVE PathOf(_, _, _)
PathOf(parentOf, nameOf, i) ==
    IF parentOf[i] = 0 THEN nameOf[i]
    ELSE ChildPath(PathOf(parentOf, nameOf, parentOf[i]), nameOf[i])

InitCrumb ==
    /\ now = 0
    /\ authTokenCache = [a \in Accounts |-> 0]
    /\ issued = [a \in Accounts |-> 0]
    /\ revoked = [a \in Accounts |-> 0]
    /\ bucket = [a \in Accounts |-> {}]
    /\ nextFileId = 1
    /\ last = NoResp
    /\ fileListCache = [a \in Accounts |-> NoEntry]
    /\ bucketInfoCache = [a \in Accounts |-> NoInfoEntry]
    /\ req = [p \in Procs |-> Idle]
    /\ staleEntry = [a \in Accounts |-> FALSE]
    /\ started = 0
    /\ files = {}
    /\ tempFiles = {}
    /\ nextDocId = MaxCrumbFolders + 1
    /\ nextStageId = 1
    /\ \E parentOf \in [CrumbIds -> 0..(MaxCrumbFolders - 1)],
          nameOf \in [CrumbIds -> CrumbNames], present \in SUBSET CrumbIds :
          /\ \A i \in CrumbIds : parentOf[i] < i
          /\ \A i \in present : parentOf[i] # 0 => parentOf[i] \in present
          /\ folders = {NewFolder(i, nameOf[i], parentOf[i],
                                  PathOf(parentOf, nameOf, i), "account1") :
                           i \in present}
    /\ \E folderId \in 0..MaxCrumbFolders :
          res = [op |-> "folderId", id |-> folderId, breadcrumb |-> <<>>]
    /\ InitClient

\* the breadcrumb of the folder is computed
FindBreadcrumb ==
    /\ res.op = "folderId"
    /\ res' = [res EXCEPT !.op = "breadcrumb",
                          !.breadcrumb = GetBreadcrumbPath(folders, res.id)]
    /\ UNCHANGED <<clientVars, sharedVars, gwVars, folders, files, tempFiles, nextDocId,
                   nextStageId>>

NextCrumb == FindBreadcrumb

SpecCrumb == InitCrumb /\ [][NextCrumb]_vars

\* the serving routes of the metadata server under the three-account
\* configuration
NextToken ==
    /\ started < MaxTokenRequests
    /\ \E a \in ServeAccounts, prefix \in {"files", "thumbnails"}, authOk \in BOOLEAN,
          dl \in {"ok", "error"} : ServeFile(a, prefix, authOk, dl)

SpecToken == Init /\ [][NextToken]_vars

\* one of the two programs runs: the gateway, one request at a time, or the
\* serving routes of the metadata server; the first request decides which
NextAccounts ==
    \/ res.op = "none" /\ NextSeq
    \/ (started = 0 \/ res.op # "none") /\ NextToken

SpecAccounts == Init /\ [][NextAccounts]_vars

\* The key derivations of the two upload handlers as functions of the title, the
\* original name and Date.now(): two uploads are drawn, then their keys derived.
KeyTitles == Titles \cup IdxTitles
KeyNames == OriginalNames \cup {<<"w", ".", "p", "n", "g">>, <<"v">>}
Stamps == 0..MaxStamp

InitKey ==
    /\ now = 0
    /\ authTokenCache = [a \in Accounts |-> 0]
    /\ issued = [a \in Accounts |-> 0]
    /\ revoked = [a \in Accounts |-> 0]
    /\ bucket = [a \in Accounts |-> {}]
    /\ nextFileId = 1
    /\ last = NoResp
    /\ fileListCache = [a \in Accounts |-> NoEntry]
    /\ bucketInfoCache = [a \in Accounts |-> NoInfoEntry]
    /\ req = [p \in Procs |-> Idle]
    /\ staleEntry = [a \in Accounts |-> FALSE]
    /\ started = 0
    /\ folders = {}
    /\ files = {}
    /\ tempFiles = {}
    /\ nextDocId = 1
    /\ nextStageId = 1
    /\ \E t \in KeyTitles, o1 \in KeyNames, o2 \in KeyNames, t1 \in Stamps, t2 \in Stamps :
          res = [op |-> "uploads", title |-> t, names |-> <<o1, o2>>,
                 stamps |-> <<t1, t2>>, keys |-> <<>>, idxKeys |-> <<>>]
    /\ InitClient

\* both handlers derive the keys of the two uploads
DeriveKeys ==
    /\ res.op = "uploads"
    /\ res' = [res EXCEPT
                  !.op = "keys",
                  !.keys = [i \in 1..2 |->
                              UploadKey(res.title, res.names[i], res.stamps[i])],
                  !.idxKeys = [i \in 1..2 |->
                                 IdxUploadKey(res.title, res.names[i], res.stamps[i])]]
    /\ UNCHANGED <<clientVars, sharedVars, gwVars, folders, files, tempFiles, nextDocId,
                   nextStageId>>

NextKey == DeriveKeys

SpecKey == InitKey /\ [][NextKey]_vars

(***************************************************************************)
(* Properties.                                                             *)
(***************************************************************************)
Mutations == {"upload", "rename", "delete"}

\* C1: cache coherence.  When a successful upload, rename or delete of an
\* account sends its response, the listing entry of that account is gone, so no
\* listing stored before the mutation outlives it: no entry is ever older than
\* the account's last successful mutation, and a listing served from the cache
\* was stored after it.
CacheCoherence ==
    /\ (last.op \in Mutations /\ last.status = "200")
          => ~fileListCache[last.account].has
    /\ \A a \in Accounts : ~staleEntry[a]
    /\ (last.op = "list" /\ last.fromCache) => ~staleEntry[last.account]

\* a successful mutation that found a listing entry of its account
CacheCoherenceWitness ==
    last.op \in Mutations /\ last.status = "200" /\ last.hadEntry

\* C2: token reuse.  With the requests of an account served one after the
\* other, the store authorizes the account at most once; an authorize call is
\* outstanding only while no token is cached, and every request that used a
\* token used the cached one.
TokenReuse ==
    \A a \in Accounts :
        /\ issued[a] <= 1
        /\ \A p \in Procs :
              (req[p].phase = "sent" /\ req[p].call = "authorize" /\ req[p].account = a)
                 => authTokenCache[a] = 0
        /\ \A p \in Procs :
              (req[p].account = a /\ req[p].authData # 0)
                 => req[p].authData = authTokenCache[a]
        /\ (last.account = a /\ last.token # 0) => last.token = authTokenCache[a]

\* a listing fetched with the cached token in a single remote call
TokenReuseWitness ==
    last.op = "list" /\ last.fetched /\ last.token # 0 /\ last.nRemote = 1

\* C3: auth-refresh retry.  When the store rejects a call as unauthorized, the
\* request ends with the rejected token out of the cache, after a second
\* attempt of the call.
AuthRefreshRetry ==
    last.rejected =>
        /\ authTokenCache[last.account] # last.token
        /\ last.nRemote >= 2

\* C9: TTL expiry.  A listing requested when its entry is older than the TTL
\* is not served from the cache: the request makes exactly one listing fetch
\* (and no other remote call) and, when the fetch succeeds, the entry becomes
\* the fresh listing of the bucket, stamped with the time of the answer.
TtlExpiry ==
    (last.op = "list" /\ last.expiredAtCall) =>
        /\ ~last.fromCache
        /\ last.nList = 1
        /\ last.nRemote = 1
        /\ last.fetched =>
              /\ fileListCache[last.account] =
                    [has |-> TRUE, timestamp |-> now, files |-> last.files]
              /\ last.files =
                    ListingOf(RemoteListFileNames(last.account), last.account)

\* an expired entry replaced by a fetched listing
TtlExpiryWitness ==
    last.op = "list" /\ last.expiredAtCall /\ last.fetched

\* C10: cache hit.  listFiles and getBucketInfo called while the entry of the
\* account is younger than the TTL answer with the payload of the entry and
\* make no remote call.
CacheHit ==
    /\ (last.op = "list" /\ last.freshAtCall) =>
          /\ last.fromCache /\ last.nRemote = 0
          /\ fileListCache[last.account].has
          /\ last.files = fileListCache[last.account].files
    /\ (last.op = "info" /\ last.freshAtCall) =>
          /\ last.fromCache /\ last.nRemote = 0
          /\ bucketInfoCache[last.account].has
          /\ last.info = bucketInfoCache[last.account].info

\* a non-empty listing served from an entry that is fresh but not new
CacheHitWitness ==
    /\ last.op = "list" /\ last.freshAtCall /\ last.fromCache
    /\ Len(last.files) > 0
    /\ now > fileListCache[last.account].timestamp

\* C4: folder path invariant.  Every folder's path is its name when it has no
\* parent, and its parent's path, "/" and its name otherwise.
FolderPathInvariant ==
    \A f \in folders :
        f.path = IF f.parent = 0 THEN f.name
                 ELSE ChildPath(Doc(folders, f.parent).path, f.name)

\* C5: non-empty folder deletion.  A request to delete an existing folder that
\* holds a file or a subfolder is answered 400 and changes neither the folders
\* nor the files.
NonEmptyFolderDeletion ==
    [][(/\ started' = started + 1
        /\ res'.op = "deleteFolder"
        /\ \E F \in folders : F.id = res'.id
        /\ \/ \E f \in files : f.folder = res'.id
           \/ \E g \in folders : g.parent = res'.id)
          => (res'.status = "400" /\ folders' = folders /\ files' = files)]_vars

\* the deletion of a folder that holds a file, refused
NonEmptyFolderDeletionWitness ==
    /\ res.op = "deleteFolder" /\ res.status = "400"
    /\ \E f \in files : f.folder = res.id

\* C6: upload failure commits nothing.  When the remote upload fails (at the
\* authorization, at the upload URL or at the transfer), the request is
\* answered 500, no file record is written and the temp directory is as it was
\* before the request: the staged file is removed.
UploadFailureCommitsNothing ==
    [][(/\ started' = started + 1
        /\ res'.op = "upload"
        /\ res'.remote \in {"auth", "url", "transfer"})
          => /\ res'.status = "500"
             /\ files' = files
             /\ bucket' = bucket
             /\ tempFiles' = tempFiles
             /\ <<res'.stage, "upload">> \notin tempFiles']_vars

\* an upload whose transfer failed
UploadFailureWitness ==
    res.op = "upload" /\ res.remote = "transfer" /\ res.status = "500"

CommitFailureCleanup ==
    (res.op = "upload" /\ res.remote = "ok" /\ ~res.saved) => res.nDelete >= 1

\* C11: concurrent cache writes.  A listing that the store answered before a
\* mutation of the account responded is never stored in the cache after that
\* response: a listing request that stores its result has fetched it after the
\* last mutation that responded.
NoStaleRepopulation ==
    (last.op = "list" /\ last.fetched /\ fileListCache[last.account].has)
        => ~last.outdated

\* C12: error-path invalidation.  A mutation request that ends after it has
\* issued a mutating remote call (the transfer, the copy, a deletion) leaves no
\* listing entry of its account, whatever its response.
ErrorPathInvalidation ==
    (last.op \in Mutations /\ last.call \in {"upload_file", "copy", "delete"})
        => ~fileListCache[last.account].has

\* C13: rename delete-failure tolerance.  A rename whose copy succeeded is
\* answered with success, also when the deletion of the old key failed.
RenameDeleteTolerance ==
    (last.op = "rename" /\ last.newFileId # 0) => last.status = "200"

DeleteTolerance ==
    [][(/\ started' = started + 1
        /\ res'.op = "deleteFile"
        /\ Has(files, res'.id)
        /\ res'.db = "ok")
          => (res'.status = "200" /\ ~Has(files', res'.id))]_vars

\* a deletion that was refused by the object store and still answered 200
DeleteToleranceWitness ==
    /\ res.op = "deleteFile" /\ res.status = "200"
    /\ res.remote = "error"
    /\ ~Has(files, res.id)

\* C16: renameFolder is all-or-nothing.  A request to rename an existing folder
\* either leaves every folder as it was, or leaves the folder with its new path
\* and each of its subfolders that carried the old prefix with the new prefix
RenameFolderAtomic ==
    [][(/\ started' = started + 1
        /\ res'.op = "renameFolder"
        /\ Has(folders, res'.id))
          => \/ folders' = folders
             \/ \A g \in folders' :
                   (/\ g.parent = res'.id
                    /\ IsPrefix(Doc(folders, res'.id).path \o <<"/">>,
                                Doc(folders, g.id).path))
                      => IsPrefix(Doc(folders', res'.id).path \o <<"/">>, g.path)]_vars

\* C17: every file record's object id and storage key name an object that is
\* in the bucket of the record's account
FileRecordLive ==
    \A f \in files :
        \E o \in bucket[f.account] : o.fileId = f.fileId /\ o.fileName = f.fullFileName

\* C18: two uploads with the same title and the same file extension whose
\* timestamps differ get different storage keys, in the gateway and in the
\* metadata server
KeyUniqueness ==
    (res.op = "keys" /\ res.stamps[1] # res.stamps[2]) =>
        /\ SplitPop(res.names[1], ".") = SplitPop(res.names[2], ".")
              => res.keys[1] # res.keys[2]
        /\ ExtName(res.names[1]) = ExtName(res.names[2])
              => res.idxKeys[1] # res.idxKeys[2]

\* two uploads of one extension at timestamps that share their last digit
KeyUniquenessWitness ==
    /\ res.op = "keys"
    /\ res.stamps[1] = 1 /\ res.stamps[2] = 11
    /\ res.names[1] # res.names[2]
    /\ SplitPop(res.names[1], ".") = SplitPop(res.names[2], ".")
    /\ ExtName(res.names[1]) = ExtName(res.names[2])
    /\ res.keys[1] # res.keys[2] /\ res.idxKeys[1] # res.idxKeys[2]

\* C19: two uploads with the same title to the same account that are in
\* progress together never hold the same storage key
ConcurrentKeysDistinct ==
    \A p, q \in Procs :
        (/\ p # q
         /\ req[p].op = "upload" /\ req[q].op = "upload"
         /\ req[p].account = req[q].account
         /\ req[p].title = req[q].title)
            => req[p].fileName # req[q].fileName

\* C20: overlapping getAuthToken calls for an account make one authorize call,
\* and every caller holds the token that is stored in the cache
SingleTokenFetch ==
    \A a \in Accounts :
        /\ Cardinality({p \in Procs : /\ req[p].account = a
                                      /\ req[p].phase = "sent"
                                      /\ req[p].call = "authorize"}) <= 1
        /\ \A p, q \in Procs :
              (/\ req[p].account = a /\ req[q].account = a
               /\ req[p].authData # 0 /\ req[q].authData # 0)
                 => (req[p].authData = req[q].authData
                     /\ req[p].authData = authTokenCache[a])

\* C21: getAuthToken fails and stores nothing for an account that is not
\* configured and when the authorize call is refused; every account that passes
\* the configuration check has a token in the cache once the store accepted
\* its credentials
TokenFailureAndAvailability ==
    [][(started' = started + 1 /\ res'.op \in {"files", "thumbnails"}) =>
         /\ res'.account \notin ExtendedConfig
               => (res'.status = "400" /\ res'.authCalls = 0
                   /\ authTokenCache' = authTokenCache)
         /\ res'.remote = "auth"
               => (res'.status = "500" /\ authTokenCache' = authTokenCache)
         /\ (res'.account \in ExtendedConfig /\ res'.authOk)
               => (res'.account \in Accounts /\ authTokenCache'[res'.account] # 0)]_vars

\* C22: the response of every successful upload, delete and rename for an
\* account is sent with neither the listing entry nor the bucket info entry of
\* that account in the caches
WholeEntryDrop ==
    (last.op \in Mutations /\ last.status = "200")
        => (~fileListCache[last.account].has /\ ~bucketInfoCache[last.account].has)

\* C23: folder tree shape.  Every parent reference names an existing folder,
\* and the parent relation has no cycle: the folders can be ranked so that
\* each parent ranks below its children
FolderTreeShape ==
    /\ \A f \in folders : f.parent # 0 => Has(folders, f.parent)
    /\ \E rank \in [{f.id : f \in folders} -> 1..MaxDocs] :
          \A f \in folders :
              (f.parent # 0 /\ Has(folders, f.parent)) => rank[f.parent] < rank[f.id]

\* a folder was deleted and a nested folder remains
FolderTreeShapeWitness ==
    /\ res.op = "deleteFolder" /\ res.status = "200"
    /\ \E f \in folders : f.parent # 0

\* C24: move then delete.  A folder out of which a file was moved, and which
\* holds no file and no subfolder, is deleted by deleteFolder when the database
\* carries the deletion out: the answer is 200, the folder is gone and every
\* file record is as it was
MoveThenDelete ==
    [][(/\ started' = started + 1
        /\ res'.op = "deleteFolder"
        /\ res'.id \in res.emptied
        /\ Has(folders, res'.id)
        /\ ~\E f \in files : f.folder = res'.id
        /\ ~\E g \in folders : g.parent = res'.id
        /\ res'.db # "error")
          => (res'.status = "200" /\ ~Has(folders', res'.id) /\ files' = files)]_vars

\* the folder was deleted after a file had been moved out of it, and both file
\* records remain
MoveThenDeleteWitness ==
    /\ res.op = "deleteFolder" /\ res.status = "200"
    /\ res.id \in res.emptied
    /\ ~Has(folders, res.id)
    /\ Cardinality(files) = 2

\* C25: rename and move frame.  A rename changes nothing but the title of the
\* record it names, a move nothing but the folder reference of the records it
\* names; neither changes another record, the number of records, a folder or
\* an object of a bucket
RenameMoveFrame ==
    [][(started' = started + 1 /\ res'.op \in {"renameFile", "move"}) =>
         /\ bucket' = bucket
         /\ folders' = folders
         /\ {f.id : f \in files'} = {f.id : f \in files}
         /\ Cardinality(files') = Cardinality(files)
         /\ \A f \in files :
               \E g \in files' :
                  /\ g.id = f.id
                  /\ res'.op = "renameFile" =>
                        /\ g = [f EXCEPT !.title = g.title]
                        /\ f.id # res'.id => g = f
                  /\ res'.op = "move" =>
                        /\ g = [f EXCEPT !.folder = g.folder]
                        /\ f.id \notin res'.ids => g = f]_vars

\* a rename that gave record 2 a title other than the one its key was built
\* from, and a record that was moved into the folder
RenameMoveFrameWitness ==
    /\ res.op = "renameFile" /\ res.status = "200" /\ res.id = 2
    /\ \E f \in files : f.id = 2 /\ f.title = <<"a">> /\ f.fileName[1] = "v"
    /\ \E f \in files : f.folder # 0

\* C26: moveFiles leniency.  A move to a folder that does not exist answers 404
\* and changes no record.  Any other move that the database carries out answers
\* 200 with a count equal to the number of records it changed, whatever ids
\* were sent: 0 when no id names a record, and never a new record
MoveLeniency ==
    [][(started' = started + 1 /\ res'.op = "move") =>
         /\ (res'.id # 0 /\ ~Has(folders, res'.id))
               => (res'.status = "404" /\ files' = files)
         /\ (~(res'.id # 0 /\ ~Has(folders, res'.id)) /\ res'.db # "error")
               => /\ res'.status = "200"
                  /\ res'.count = Cardinality(files \ files')
                  /\ (\A f \in files : f.id \notin res'.ids) => res'.count = 0
                  /\ {f.id : f \in files'} = {f.id : f \in files}]_vars

\* a move of an id that names no record, answered 200 with count 0
MoveLeniencyWitness ==
    /\ res.op = "move" /\ res.status = "200"
    /\ res.ids = {MissingId} /\ res.count = 0
    /\ Cardinality(files) = 2

\* C27: the breadcrumb of a folder lists the folder and all its ancestors with
\* their ids and names, the root first and the folder itself last; it is
\* empty when the id is null or names no folder
BreadcrumbOrder ==
    res.op = "breadcrumb" =>
        LET b == res.breadcrumb
        IN  IF res.id = 0 \/ ~Has(folders, res.id)
            THEN b = <<>>
            ELSE /\ Len(b) >= 1
                 /\ b[Len(b)].id = res.id
                 /\ Doc(folders, b[1].id).parent = 0
                 /\ \A i \in 1..(Len(b) - 1) :
                       Doc(folders, b[i + 1].id).parent = b[i].id
                 /\ \A i \in 1..Len(b) :
                       Has(folders, b[i].id) /\ b[i].name = Doc(folders, b[i].id).name

\* the breadcrumb of a folder two levels below a root
BreadcrumbOrderWitness ==
    /\ res.op = "breadcrumb" /\ Len(res.breadcrumb) = 3
    /\ res.breadcrumb[3].id = res.id

UploadThenList ==
    \A a \in Accounts :
        \A o \in bucket[a] :
            (/\ \A o2 \in bucket[a] \ {o} : o2.uploadTimestamp < o.uploadTimestamp
             /\ last.op = "list" /\ last.account = a
             /\ last.fromCache \/ (last.fetched /\ ~last.outdated))
                => (Len(last.files) >= 1 /\ last.files[1].fileId = o.fileId)

\* C30: unknown account.  An upload, rename, delete or file request of the
\* gateway, and a file or thumbnail request of the metadata server, that names
\* an account missing from the configuration is answered 400 with no remote
\* call made, no token issued or cached, and no cache entry, object, pending
\* request or record changed
UnknownAccount ==
    [][/\ (/\ started' = started + 1
            /\ last'.op \in {"upload", "rename", "delete", "serve"}
            /\ last'.account \notin DOMAIN bucketConfig)
              => /\ last'.status = "400" /\ last'.nRemote = 0
                 /\ UNCHANGED <<authTokenCache, issued, bucket, fileListCache,
                                bucketInfoCache, req, folders, files>>
       /\ (/\ started' = started + 1
            /\ res'.op \in {"files", "thumbnails"}
            /\ res'.account \notin ExtendedConfig)
              => /\ res'.status = "400" /\ res'.authCalls = 0
                 /\ UNCHANGED <<authTokenCache, issued, bucket, fileListCache,
                                bucketInfoCache, req, folders, files>>]_vars

\* a rename for an unknown account refused while a listing and a token of a
\* configured account are cached
UnknownAccountWitness ==
    /\ last.op = "rename" /\ last.account = "other" /\ last.status = "400"
    /\ \E a \in Accounts : fileListCache[a].has /\ authTokenCache[a] # 0

\* C31: folder reference integrity.  The folder reference of every file record
\* is null (0) or the id of a folder record that exists.
FolderReferenceIntegrity ==
    \A f \in files : f.folder = 0 \/ Has(folders, f.folder)

\* ---- the metadata server with handlers in progress at the same time ----
\* DELETE /api/folders/1 served while POST /api/files/move, POST /upload and
\* POST /api/folders that name folder 1 are served: each handler is one request,
\* taken from await to await; req holds the position of each.  The database
\* and the object store answer every call.
RaceHandlers == {"deleteFolder", "moveFiles", "upload", "createFolder"}

RaceFolder == 1

Pending(phase) == [phase |-> phase, status |-> "", ids |-> {}]

\* res.status(...) of handler h
RaceRespond(h, status) ==
    /\ req' = [req EXCEPT ![h] = [@ EXCEPT !.phase = "done", !.status = status]]
    /\ res' = [NoRes EXCEPT !.op = h, !.status = status, !.id = RaceFolder]

RaceGoto(h, phase) ==
    /\ req' = [req EXCEPT ![h].phase = phase]
    /\ UNCHANGED res

InitRace ==
    /\ now = 0
    /\ authTokenCache = [a \in Accounts |-> IF a = "account1" THEN 1 ELSE 0]
    /\ issued = [a \in Accounts |-> IF a = "account1" THEN 1 ELSE 0]
    /\ revoked = [a \in Accounts |-> 0]
    /\ bucket = [a \in Accounts |->
                   IF a = "account1"
                   THEN {[fileName |-> UploadedRecord(2, <<>>, 1).fullFileName,
                          fileId |-> 1, uploadTimestamp |-> 0]}
                   ELSE {}]
    /\ nextFileId = 2
    /\ last = NoResp
    /\ fileListCache = [a \in Accounts |-> NoEntry]
    /\ bucketInfoCache = [a \in Accounts |-> NoInfoEntry]
    /\ req = [h \in RaceHandlers |-> Pending("new")]
    /\ staleEntry = [a \in Accounts |-> FALSE]
    /\ started = 0
    /\ folders = {NewFolder(RaceFolder, <<"a">>, 0, <<"a">>, "account1")}
    /\ files = {UploadedRecord(2, <<>>, 1)}
    /\ res = NoRes
    /\ tempFiles = {}
    /\ nextDocId = 3
    /\ nextStageId = 2
    /\ InitClient

raceFrame == <<now, authTokenCache, issued, revoked, last, fileListCache,
               bucketInfoCache, staleEntry>>

\* DELETE /api/folders/1 is received: Folder.findById is sent
DeleteReceive ==
    /\ req["deleteFolder"].phase = "new"
    /\ IdxBegin
    /\ RaceGoto("deleteFolder", "find")
    /\ UNCHANGED <<clientVars, raceFrame, bucket, nextFileId, folders, files, tempFiles,
                   nextDocId, nextStageId>>

\* Folder.findById answers
DeleteFind ==
    /\ req["deleteFolder"].phase = "find"
    /\ IF ~Has(folders, RaceFolder)
       THEN RaceRespond("deleteFolder", "404")
       ELSE RaceGoto("deleteFolder", "files")
    /\ UNCHANGED <<clientVars, raceFrame, started, bucket, nextFileId, folders, files, tempFiles,
                   nextDocId, nextStageId>>

\* File.countDocuments({ folder: id }) answers
DeleteCountFiles ==
    /\ req["deleteFolder"].phase = "files"
    /\ IF FilesCount(RaceFolder) > 0
       THEN RaceRespond("deleteFolder", "400")
       ELSE RaceGoto("deleteFolder", "subfolders")
    /\ UNCHANGED <<clientVars, raceFrame, started, bucket, nextFileId, folders, files, tempFiles,
                   nextDocId, nextStageId>>

\* Folder.countDocuments({ parent: id }) answers
DeleteCountSubfolders ==
    /\ req["deleteFolder"].phase = "subfolders"
    /\ IF SubfoldersCount(RaceFolder) > 0
       THEN RaceRespond("deleteFolder", "400")
       ELSE RaceGoto("deleteFolder", "delete")
    /\ UNCHANGED <<clientVars, raceFrame, started, bucket, nextFileId, folders, files, tempFiles,
                   nextDocId, nextStageId>>

\* folder.deleteOne() answers
DeleteOne ==
    /\ req["deleteFolder"].phase = "delete"
    /\ folders' = {f \in folders : f.id # RaceFolder}
    /\ RaceRespond("deleteFolder", "200")
    /\ UNCHANGED <<clientVars, raceFrame, started, bucket, nextFileId, files, tempFiles,
                   nextDocId, nextStageId>>

\* POST /api/files/move {fileIds, folderId: 1} is received
MoveReceive(fileIds) ==
    /\ req["moveFiles"].phase = "new"
    /\ IdxBegin
    /\ req' = [req EXCEPT !["moveFiles"] = [@ EXCEPT !.phase = "find", !.ids = fileIds]]
    /\ UNCHANGED <<clientVars, raceFrame, res, bucket, nextFileId, folders, files, tempFiles,
                   nextDocId, nextStageId>>

\* Folder.findById(folderId) answers
MoveFind ==
    /\ req["moveFiles"].phase = "find"
    /\ IF ~Has(folders, RaceFolder)
       THEN RaceRespond("moveFiles", "404")
       ELSE RaceGoto("moveFiles", "update")
    /\ UNCHANGED <<clientVars, raceFrame, started, bucket, nextFileId, folders, files, tempFiles,
                   nextDocId, nextStageId>>

\* File.updateMany answers
MoveUpdate ==
    /\ req["moveFiles"].phase = "update"
    /\ files' = {IF f.id \in req["moveFiles"].ids
                 THEN [f EXCEPT !.folder = RaceFolder] ELSE f : f \in files}
    /\ RaceRespond("moveFiles", "200")
    /\ UNCHANGED <<clientVars, raceFrame, started, bucket, nextFileId, folders, tempFiles,
                   nextDocId, nextStageId>>

\* POST /upload {account: 'account1', title: 'b', folderId: 1, file v.png} is
\* received, multer having staged the file: uploadFileToB2 is called
RaceUploadReceive ==
    /\ req["upload"].phase = "new"
    /\ IdxBegin
    /\ tempFiles' = tempFiles \cup {<<nextStageId, "upload">>}
    /\ nextStageId' = nextStageId + 1
    /\ RaceGoto("upload", "b2")
    /\ UNCHANGED <<clientVars, raceFrame, bucket, nextFileId, folders, files, nextDocId>>

\* uploadFileToB2 answers: fileRecord.save() is called
RaceUploadStored ==
    /\ req["upload"].phase = "b2"
    /\ bucket' = [bucket EXCEPT !["account1"] =
                    @ \cup {[fileName |-> IdxUploadKey(<<"b">>, <<"v", ".", "p", "n", "g">>, now),
                             fileId |-> nextFileId, uploadTimestamp |-> now]}]
    /\ nextFileId' = nextFileId + 1
    /\ RaceGoto("upload", "save")
    /\ UNCHANGED <<clientVars, raceFrame, started, folders, files, tempFiles, nextDocId,
                   nextStageId>>

\* fileRecord.save() answers: the temp file is removed
RaceUploadSaved ==
    LET key == IdxUploadKey(<<"b">>, <<"v", ".", "p", "n", "g">>, now)
        fileRecord ==
            [id |-> nextDocId, title |-> <<"b">>, fileName |-> StripFilesPrefix(key),
             fullFileName |-> key, fileId |-> nextFileId - 1, account |-> "account1",
             folder |-> RaceFolder, uploadTimestamp |-> now,
             duration |-> Null, thumbnailUrl |-> Null]
    IN  /\ req["upload"].phase = "save"
        /\ files' = files \cup {fileRecord}
        /\ nextDocId' = nextDocId + 1
        /\ tempFiles' = {t \in tempFiles : t[2] # "upload"}
        /\ RaceRespond("upload", "201")
        /\ UNCHANGED <<clientVars, raceFrame, started, bucket, nextFileId, folders, nextStageId>>

\* POST /api/folders {name: 'b', parent: 1} is received
CreateReceive ==
    /\ req["createFolder"].phase = "new"
    /\ IdxBegin
    /\ RaceGoto("createFolder", "find")
    /\ UNCHANGED <<clientVars, raceFrame, bucket, nextFileId, folders, files, tempFiles,
                   nextDocId, nextStageId>>

\* Folder.findById(parent) answers; the path is built from the parent read here
CreateFind ==
    /\ req["createFolder"].phase = "find"
    /\ IF ~Has(folders, RaceFolder)
       THEN RaceRespond("createFolder", "404")
       ELSE RaceGoto("createFolder", "save")
    /\ UNCHANGED <<clientVars, raceFrame, started, bucket, nextFileId, folders, files, tempFiles,
                   nextDocId, nextStageId>>

\* folder.save() answers
CreateSave ==
    /\ req["createFolder"].phase = "save"
    /\ folders' = folders \cup {NewFolder(nextDocId, <<"b">>, RaceFolder,
                                           ChildPath(<<"a">>, <<"b">>), "account1")}
    /\ nextDocId' = nextDocId + 1
    /\ RaceRespond("createFolder", "201")
    /\ UNCHANGED <<clientVars, raceFrame, started, bucket, nextFileId, files, tempFiles,
                   nextStageId>>

NextRace ==
    \/ DeleteReceive
    \/ DeleteFind
    \/ DeleteCountFiles
    \/ DeleteCountSubfolders
    \/ DeleteOne
    \/ \E fileIds \in SUBSET {2, MissingId} : MoveReceive(fileIds)
    \/ MoveFind
    \/ MoveUpdate
    \/ RaceUploadReceive
    \/ RaceUploadStored
    \/ RaceUploadSaved
    \/ CreateReceive
    \/ CreateFind
    \/ CreateSave

SpecRace == InitRace /\ [][NextRace]_vars

\* C32: folder deletion race.  Once the deletion of folder 1 and the requests
\* served with it have all been answered, folder 1 has not been deleted while a
\* file record or a folder record refers to it.
FolderDeletionRace ==
    (\A h \in RaceHandlers : req[h].phase \in {"new", "done"})
        => \/ Has(folders, RaceFolder)
           \/ /\ \A f \in files : f.folder # RaceFolder
              /\ \A d \in folders : d.parent # RaceFolder

\* folder g lies below folder id in the parent relation of fs
RECURSIVE DescendsFrom(_, _, _)
DescendsFrom(fs, g, id) ==
    /\ g.parent # 0
    /\ \/ g.parent = id
       \/ Has(fs, g.parent) /\ DescendsFrom(fs, Doc(fs, g.parent), id)

\* C33: renameFolder frame.  A rename of folder F leaves the name and the
\* path of every folder that is neither F nor a descendant of F as they were.
RenameFolderFrame ==
    [][(/\ started' = started + 1
        /\ res'.op = "renameFolder")
          => \A g \in folders :
                (g.id # res'.id /\ ~DescendsFrom(folders, g, res'.id))
                    => g \in folders']_vars

\* C34: a failed fetch does not poison the cache.  A listFiles or
\* getBucketInfo call that ends without an answer from the store (the token
\* fetch or the remote call failed) returns the empty list, or the placeholder,
\* and leaves both caches as they were, so the entry of the account is not
\* fresh and the next call for it goes to the store.
FailedFetchNotCached ==
    [][(/\ last'.op \in {"list", "info"}
        /\ last'.status = "return"
        /\ ~last'.fetched /\ ~last'.fromCache)
          => /\ UNCHANGED <<fileListCache, bucketInfoCache>>
             /\ last'.op = "list"
                  => /\ last'.files = <<>>
                     /\ \A a \in Accounts : a = last'.account => ~ListCacheHit(a)'
             /\ last'.op = "info"
                  => /\ last'.info = ErrorInfo
                     /\ \A a \in Accounts : a = last'.account => ~InfoCacheHit(a)']_vars

\* a listing whose remote call failed while an expired entry of the account
\* was in the cache
FailedFetchNotCachedWitness ==
    /\ last.op = "list" /\ last.status = "return"
    /\ ~last.fetched /\ ~last.fromCache
    /\ last.expiredAtCall /\ last.nList = 1
    /\ fileListCache[last.account].has

\* C35: staged file hygiene.  When an upload request of the metadata server
\* has been answered, the temporary file multer staged for it is gone.
StagedFileRemoved ==
    (res.op = "upload" /\ res.status \in {"201", "400", "500"})
        => <<res.stage, "upload">> \notin tempFiles

\* C36: thumbnail removal on delete.  When deleteFile has succeeded for a
\* record with a thumbnailUrl, the object store having accepted the deletion of
\* the file, neither the file's object nor the object under the thumbnail's key
\* is left in the bucket of the account.
ThumbnailRemoved ==
    [][(/\ started' = started + 1
        /\ res'.op = "deleteFile" /\ res'.status = "200" /\ res'.remote = "ok"
        /\ Has(files, res'.id)
        /\ Doc(files, res'.id).thumbnailUrl # Null)
          => LET file == Doc(files, res'.id)
             IN  \A o \in bucket'[file.account] :
                    /\ o.fileName # file.fullFileName
                    /\ o.fileName # ThumbnailKey(file.thumbnailUrl)]_vars

\* C37: upload queue mutual exclusion.  At most one upload request is in
\* flight; isUploading is true while a request is in flight or the timer of a
\* 201 answer is pending; a request that is sent is for the head of a queue
\* that is not empty; and isUploading falls only with the failed answer of the
\* one request in flight or with the timer set on its 201 answer.
QueueMutualExclusion ==
    [][/\ Len(xhrs') <= 1
       /\ (xhrs' # <<>> \/ timeouts' # {}) => isUploading'
       /\ sendCount' # sendCount
            => /\ ~isUploading \/ Len(xhrs) = 1 \/ timeouts # {}
               /\ Len(uploadQueueList') > 0
               /\ xhrs' = <<uploadQueueList'[1]>>
       /\ (isUploading /\ ~isUploading')
            => \/ Len(xhrs) = 1 /\ xhrs' = <<>> /\ itemStatus'[xhrs[1]] = "error"
               \/ xhrs = <<>> /\ timeouts' # timeouts]_vars

\* a second form is submitted while the request of the first is in flight
QueueMutualExclusionWitness ==
    /\ Len(xhrs) = 1 /\ isUploading
    /\ Len(uploadQueueList) >= 2
    /\ xhrs[1] = uploadQueueList[1]
    /\ itemStatus[uploadQueueList[2]] = "queued"
    /\ nextItemId >= 3

\* item i waits in the queue with status 'queued'
Queued(i) == itemStatus[i] = "queued" /\ FindIndex(uploadQueueList, i, 1) # 0

\* C38: upload queue progress.  When every request is answered and every
\* timer fires, every item that waits in the queue with status 'queued'
\* eventually leaves that status (it is sent, or taken out of the queue).
QueueProgress ==
    \A i \in ItemIds : Queued(i) ~> ~Queued(i)

\* ---- the title a listing shows for an upload, as a function of the title
\* given at upload: a title, an original name and Date.now() are drawn, the
\* gateway's upload handler derives the key and listFiles parses it back ----
MaxTitleLen == 3

TitleChars == {"a", "b", "1", " "}

RECURSIVE SeqsUpTo(_, _)
SeqsUpTo(chars, n) ==
    IF n = 0 THEN {<<>>}
    ELSE LET shorter == SeqsUpTo(chars, n - 1)
         IN  shorter \cup {Append(s, c) : s \in shorter, c \in chars}

ListedTitles == SeqsUpTo(TitleChars, MaxTitleLen) \ {<<>>}

InitTitle ==
    /\ now = 0
    /\ authTokenCache = [a \in Accounts |-> 0]
    /\ issued = [a \in Accounts |-> 0]
    /\ revoked = [a \in Accounts |-> 0]
    /\ bucket = [a \in Accounts |-> {}]
    /\ nextFileId = 1
    /\ last = NoResp
    /\ fileListCache = [a \in Accounts |-> NoEntry]
    /\ bucketInfoCache = [a \in Accounts |-> NoInfoEntry]
    /\ req = [p \in Procs |-> Idle]
    /\ staleEntry = [a \in Accounts |-> FALSE]
    /\ started = 0
    /\ folders = {}
    /\ files = {}
    /\ tempFiles = {}
    /\ nextDocId = 1
    /\ nextStageId = 1
    /\ \E t \in ListedTitles, o \in KeyNames, ts \in {0, MaxStamp} :
          res = [op |-> "upload", title |-> t, name |-> o, stamp |-> ts,
                 key |-> <<>>, listed |-> <<>>]
    /\ InitClient

\* the upload handler derives the key; listFiles maps the listed file name
ListUploaded ==
    LET key == UploadKey(res.title, res.name, res.stamp)
        file == [fileName |-> key, fileId |-> 1, uploadTimestamp |-> res.stamp]
    IN  /\ res.op = "upload"
        /\ res' = [res EXCEPT !.op = "listed", !.key = key,
                              !.listed = FileView(file, "account1").title]
        /\ UNCHANGED <<clientVars, sharedVars, gwVars, folders, files, tempFiles, nextDocId,
                       nextStageId>>

NextTitle == ListUploaded

SpecTitle == InitTitle /\ [][NextTitle]_vars

\* a title of lower-case letters, digits and single spaces between them
PlainTitle(t) ==
    /\ Len(t) > 0
    /\ \A i \in 1..Len(t) : t[i] \in LowerLetters \cup Digits \cup {" "}
    /\ t[1] # " " /\ t[Len(t)] # " "
    /\ \A i \in 1..(Len(t) - 1) : ~(t[i] = " " /\ t[i + 1] = " ")

\* C39: title round trip in listings.  For an upload whose title is made of
\* lower-case letters, digits and single spaces, the title the listing derives
\* from the storage key is the title given at upload.
TitleRoundTrip ==
    (res.op = "listed" /\ PlainTitle(res.title)) => res.listed = res.title

====
